---- MODULE Spec2Model ----
(***************************************************************************)
(* Mail ingestion pipeline of support318/agentic-workspace:                *)
(*   - ProcessedEmailTracker (execution/email_processor.py), the durable   *)
(*     ledger of processed message identifiers;                            *)
(*   - EmailProcessor (execution/email_processor.py), the daemon that      *)
(*     polls the mailbox, extracts a lead and syncs it to the CRM.         *)
(*                                                                         *)
(* Two specifications share the variables:                                 *)
(*   Spec        the daemon (run / check_new_emails / process_email),      *)
(*               with the environment: shutdown signal, process kill and   *)
(*               restart, mailbox contents, CRM and model responses;       *)
(*   SpecLedger  the tracker's API called in any interleaving.             *)
(***************************************************************************)
EXTENDS Integers, Sequences, FiniteSets, TLC

VARIABLES
    ledger,        \* rows of table processed_emails (sqlite file: survives restarts)
    now,           \* the clock read by datetime.now(timezone.utc)
    everMarked,    \* history: uids for which a mark_processed call has committed
    swept,         \* history: uids whose row a cleanup removed since their last mark
    lastCall,      \* history: the last tracker call and what it returned
    pc,            \* the daemon's position in run()/check_new_emails()/process_email()
    running,       \* EmailProcessor._running
    metrics,       \* EmailProcessor.metrics (the five counters)
    emails,        \* check_new_emails: the list returned by fetch_new_emails
    idx,           \* check_new_emails: position of the for loop in emails
    lead,          \* process_email: the extractor's result
    existing,      \* create_or_update_contact: the contact found or created
    result,        \* process_email: the dict create_or_update_contact returned
    use_ai,        \* EmailExtractor.use_ai
    run_calls,     \* history: collaborator calls issued by the current process_email
    run_failed,    \* history: collaborator calls that failed in the current process_email
    run_counted,   \* history: a failure counter was incremented in the current process_email
    effects,       \* history: per uid, contacts created / pipeline records opened in the CRM
    lastResult,    \* history: what the last process_email of this poll cycle returned
    prevDelivered, \* history: uids the last finished poll cycle handed to process_email
    interrupted,   \* history: per uid, number of kills that hit it inside process_email
    pending,       \* history: uids a kill hit inside process_email, not recorded since
    crashes,       \* history: number of process kills so far
    cycles,        \* history: number of poll cycles started so far
    conn           \* IMAPClient: the session and the connect() call in progress

vars == << ledger, now, everMarked, swept, lastCall, pc, running, metrics, emails,
           idx, lead, existing, result, use_ai, run_calls, run_failed, run_counted,
           effects, lastResult, prevDelivered, interrupted, pending, crashes, cycles,
           conn >>

ledgerVars == << ledger, now, everMarked, swept, lastCall >>

daemonVars == << pc, running, metrics, emails, idx, lead, existing, result, use_ai,
                 run_calls, run_failed, run_counted, effects, lastResult,
                 prevDelivered, interrupted, pending, crashes, cycles, conn >>

(***************************************************************************)
(* Bounds of the model.                                                    *)
(***************************************************************************)
NumMsgs == 2       \* message identifiers the mailbox can list
MaxTime == 2       \* the clock stops advancing here
MaxCycles == 2     \* poll cycles the daemon starts (over all its incarnations)
MaxCrashes == 1    \* process kills

Uids == 1 .. NumMsgs
None == "None"     \* Python's None / SQL NULL

(***************************************************************************)
(* ProcessedEmailTracker: table processed_emails and its three statements. *)
(***************************************************************************)

\* One row of processed_emails, columns as in _init_db.
Row(uid, processed_at, email_from, subject, contact_id, platform, status) ==
    [ uid |-> uid, processed_at |-> processed_at, email_from |-> email_from,
      subject |-> subject, contact_id |-> contact_id, platform |-> platform,
      status |-> status ]

\* A lookup that only counts rows recorded with status 'success'.
is_processed_success_only(db, uid) == \E r \in db : r.uid = uid /\ r.status = "success"

\* SELECT 1 FROM processed_emails WHERE uid = ? LIMIT 1 ... fetchone() is not None
is_processed(db, uid) == \E r \in db : r.uid = uid

\* A write that is never committed: the table stays as it was.
mark_processed_dropped(db, uid, at, email_from, subject, contact_id, platform, status) == db

\* A table without the PRIMARY KEY conflict clause: the row is added beside the old one.
mark_processed_insert_only(db, uid, at, email_from, subject, contact_id, platform, status) ==
    db \cup { Row(uid, at, email_from, subject, contact_id, platform, status) }

\* An upsert that overwrites the time and the status of an existing row and keeps
\* its other columns.
mark_processed_keep_columns(db, uid, at, email_from, subject, contact_id, platform, status) ==
    { r \in db : r.uid # uid }
        \cup ( IF \E r \in db : r.uid = uid
               THEN { [ r EXCEPT !.processed_at = at, !.status = status ] :
                         r \in { q \in db : q.uid = uid } }
               ELSE { Row(uid, at, email_from, subject, contact_id, platform, status) } )

\* INSERT OR REPLACE INTO processed_emails (uid is the PRIMARY KEY): the row with
\* this uid, if any, is deleted and the new row inserted, in one statement.
mark_processed(db, uid, at, email_from, subject, contact_id, platform, status) ==
    { r \in db : r.uid # uid }
        \cup { Row(uid, at, email_from, subject, contact_id, platform, status) }

\* A sweep that empties the table.
cleanup_old_records_all(db, cutoff) == {}

\* A sweep whose comparison includes the cutoff instant itself.
cleanup_old_records_inclusive(db, cutoff) == { r \in db : ~(r.processed_at <= cutoff) }

\* DELETE FROM processed_emails WHERE processed_at < cutoff: the rows that remain.
cleanup_old_records(db, cutoff) == { r \in db : ~(r.processed_at < cutoff) }

\* The rows of db with this uid (at most one while uid is a key).
RowsOf(db, uid) == { r \in db : r.uid = uid }

(***************************************************************************)
(* SpecLedger: the tracker's API, called in any order by any caller.       *)
(***************************************************************************)

\* Argument vectors of mark_processed used by the callers of SpecLedger; the
\* defaults of the signature (None, None, None, None, 'success') are the first.
MarkArgs ==
    { [ email_from |-> None, subject |-> None, contact_id |-> None,
        platform |-> None, status |-> "success" ],
      [ email_from |-> "sender_a", subject |-> "subject_a", contact_id |-> "contact_a",
        platform |-> "WeddingWire", status |-> "success" ],
      [ email_from |-> "sender_b", subject |-> "subject_b", contact_id |-> "contact_b",
        platform |-> "Zola", status |-> "error" ] }

\* Retention windows (in clock ticks) passed to cleanup_old_records.
RetentionDays == { 0, 1, 2 }

NoCall == [ op |-> "none" ]

TrackerMark(uid, a) ==
    /\ ledger' = mark_processed(ledger, uid, now, a.email_from, a.subject,
                                a.contact_id, a.platform, a.status)
    /\ everMarked' = everMarked \cup { uid }
    /\ swept' = swept \ { uid }
    /\ lastCall' = [ op |-> "mark_processed", uid |-> uid, args |-> a, at |-> now,
                     replaced |-> RowsOf(ledger, uid) ]
    /\ UNCHANGED now
    /\ UNCHANGED daemonVars

TrackerMarkProcessed == \E uid \in Uids, a \in MarkArgs : TrackerMark(uid, a)

TrackerCleanup ==
    \E days \in RetentionDays :
        LET cutoff == now - days
            kept == cleanup_old_records(ledger, cutoff)
        IN  /\ ledger' = kept
            /\ swept' = swept \cup { r.uid : r \in { q \in ledger : q.processed_at < cutoff } }
            /\ lastCall' = [ op |-> "cleanup_old_records", cutoff |-> cutoff,
                             deleted |-> Cardinality(ledger) - Cardinality(kept) ]
            /\ UNCHANGED << now, everMarked >>
            /\ UNCHANGED daemonVars

TrackerIsProcessed ==
    \E uid \in Uids :
        /\ lastCall' = [ op |-> "is_processed", uid |-> uid,
                         returned |-> is_processed(ledger, uid) ]
        /\ UNCHANGED << ledger, now, everMarked, swept >>
        /\ UNCHANGED daemonVars

Tick ==
    /\ now < MaxTime
    /\ now' = now + 1
    /\ UNCHANGED << ledger, everMarked, swept, lastCall >>
    /\ UNCHANGED daemonVars

(***************************************************************************)
(* The mailbox and the messages it holds.  A message is immutable: what    *)
(* the parser and the classifier make of it is a function of its uid.      *)
(***************************************************************************)

\* What fetch_by_uid returns for uid: the fields process_email reads.
\*   body_signed_contact   the body names a platform and holds e-mail, phone, name, date
\*   body_unsigned         nothing in the body names a platform
\*   body_signed_nocontact the body names a platform and holds no e-mail or phone
\*   raw_headers           dict(email_message.items()): the header names as the
\*                         message spells them, each with the platforms its value names
EmailMessage(uid) ==
    [ uid |-> uid,
      from_addr |-> << "from", uid >>,
      subject |-> << "subject", uid >>,
      body |-> CASE uid % 3 = 1 -> "body_signed_contact"
                 [] uid % 3 = 2 -> "body_unsigned"
                 [] OTHER -> "body_signed_nocontact",
      raw_headers |-> [ From |-> IF uid % 3 = 2 THEN {} ELSE { "WeddingWire" },
                        Subject |-> {} ] ]

(***************************************************************************)
(* EmailExtractor.extract and LeadData.is_valid.                           *)
(***************************************************************************)

\* A field map (dict) of an extraction; tag "none" is Python's None, tag "empty" is {}.
NoData == [ tag |-> "none", email |-> FALSE, phone |-> FALSE, name_date |-> FALSE,
            source_platform |-> None ]
EmptyData == [ NoData EXCEPT !.tag = "empty" ]

\* The answers the generative model can give to one call.
AiOutcomes ==
    { "error", "timeout", "non_json", "non_object", "empty_object", "contact",
      "no_contact" }

\* The answers on which extract_with_ai returns None: generate_content raises
\* (an API error, a timeout), json.loads raises, or the parsed value is no dict.
ModelFailures == { "error", "timeout", "non_json", "non_object" }

\* PLATFORM_PATTERNS: the platforms in the order of the dict literal, which is the
\* order `for platform, patterns in PLATFORM_PATTERNS.items()` visits them in.
PLATFORM_PATTERNS == << "WeddingWire", "TheKnot", "Zola", "StyleMePretty" >>

Platforms == { PLATFORM_PATTERNS[i] : i \in 1 .. Len(PLATFORM_PATTERNS) }

\* A text is modelled by the set of platforms of which it matches at least one
\* pattern under re.search(pattern, text, re.IGNORECASE).  The text of a body:
BodyText(body) ==
    IF body \in { "body_signed_contact", "body_signed_nocontact" }
    THEN { "WeddingWire" } ELSE {}

\* headers.get(key, ''): the value under exactly that key, else the empty text.
HeaderGet(headers, key) == IF key \in DOMAIN headers THEN headers[key] ELSE {}

\* A classifier that visits the table from its last platform to its first.
detect_platform_last_first(email_text, headers) ==
    LET combined_text == email_text \cup HeaderGet(headers, "from")
                            \cup HeaderGet(headers, "subject")
        matching == { i \in 1 .. Len(PLATFORM_PATTERNS) :
                        PLATFORM_PATTERNS[i] \in combined_text }
    IN  IF matching = {} THEN None
        ELSE PLATFORM_PATTERNS[CHOOSE i \in matching : \A j \in matching : j <= i]

\* detect_platform, lines 222-231: combined_text = email_text + " " +
\* headers.get('from', '') + " " + headers.get('subject', ''); the first platform
\* of the table with a matching pattern is returned, None when there is none.
detect_platform(email_text, headers) ==
    LET combined_text == email_text \cup HeaderGet(headers, "from")
                            \cup HeaderGet(headers, "subject")
        matching == { i \in 1 .. Len(PLATFORM_PATTERNS) :
                        PLATFORM_PATTERNS[i] \in combined_text }
    IN  IF matching = {} THEN None
        ELSE PLATFORM_PATTERNS[CHOOSE i \in matching : \A j \in matching : i <= j]

extract_with_ai(ai) ==
    CASE ai \in ModelFailures -> NoData
      [] ai = "empty_object" -> EmptyData
      [] ai = "contact" -> [ NoData EXCEPT !.tag = "dict", !.email = TRUE ]
      [] OTHER -> [ NoData EXCEPT !.tag = "dict", !.name_date = TRUE ]

extract_with_regex(body, platform) ==
    IF body \in { "body_signed_contact", "body_contact_unsigned" }
    THEN [ tag |-> "dict", email |-> TRUE, phone |-> TRUE, name_date |-> TRUE,
           source_platform |-> platform ]
    ELSE [ NoData EXCEPT !.tag = "dict", !.source_platform = platform ]

NoLead == [ tag |-> "none", email |-> FALSE, phone |-> FALSE, name_date |-> FALSE,
            source_platform |-> None, extraction_method |-> None ]

\* create_lead_from_extraction: the LeadData built from a field map.
create_lead_from_extraction(data, method) ==
    [ tag |-> "lead", email |-> data.email, phone |-> data.phone,
      name_date |-> data.name_date, source_platform |-> data.source_platform,
      extraction_method |-> method ]

\* An extract that gives up whenever no platform was detected, model result or not.
extract_requires_platform(body, headers, ai) ==
    LET platform == detect_platform(BodyText(body), headers)
        ai_data == IF use_ai THEN extract_with_ai(ai) ELSE NoData
        truthy == ai_data.tag = "dict"
        data == IF truthy THEN ai_data ELSE extract_with_regex(body, platform)
    IN  IF platform = None THEN NoLead
        ELSE create_lead_from_extraction(
                 IF data.source_platform = None
                 THEN [ data EXCEPT !.source_platform = platform ] ELSE data,
                 IF truthy THEN "ai" ELSE "regex")

\* An extract whose model call is made a second time after a failed answer.
extract_calls_retrying(body, headers, ai) ==
    LET platform == detect_platform(BodyText(body), headers)
        ai_data == IF use_ai THEN extract_with_ai(ai) ELSE NoData
    IN  << "detect_platform" >>
          \o (IF use_ai THEN << "extract_with_ai", "generate_content" >> ELSE << >>)
          \o (IF use_ai /\ ai \in ModelFailures THEN << "generate_content" >> ELSE << >>)
          \o (IF ai_data.tag # "dict" /\ platform # None
              THEN << "extract_with_regex" >> ELSE << >>)

\* EmailExtractor.extract, lines 366-388: the strategies it calls, in call order;
\* extract_with_ai makes its one client.generate_content call (line 272) when a
\* model is configured.
extract_calls(body, headers, ai) ==
    LET platform == detect_platform(BodyText(body), headers)
        ai_data == IF use_ai THEN extract_with_ai(ai) ELSE NoData
    IN  << "detect_platform" >>
          \o (IF use_ai THEN << "extract_with_ai", "generate_content" >> ELSE << >>)
          \o (IF ai_data.tag # "dict" /\ platform # None
              THEN << "extract_with_regex" >> ELSE << >>)

\* An extract that takes every dict the model returns, the empty one too, as a result.
extract_empty_is_result(body, headers, ai) ==
    LET platform == detect_platform(BodyText(body), headers)
        ai_data == IF use_ai THEN extract_with_ai(ai) ELSE NoData
        truthy == ai_data.tag \in { "dict", "empty" }
        method == IF truthy THEN "ai" ELSE "regex"
        data == IF truthy THEN ai_data
                ELSE IF platform # None THEN extract_with_regex(body, platform)
                ELSE NoData
        stamped == IF platform # None /\ data.source_platform = None
                   THEN [ data EXCEPT !.source_platform = platform ]
                   ELSE data
    IN  IF data.tag = "none" THEN NoLead
        ELSE create_lead_from_extraction(stamped, method)

\* EmailExtractor.extract; ai is the model's answer should the model be called.
extract(body, headers, ai) ==
    LET platform == detect_platform(BodyText(body), headers)
        ai_data == IF use_ai THEN extract_with_ai(ai) ELSE NoData
        truthy == ai_data.tag = "dict"
        method == IF truthy THEN "ai" ELSE "regex"
        data == IF truthy THEN ai_data
                ELSE IF platform # None THEN extract_with_regex(body, platform)
                ELSE NoData
        stamped == IF platform # None /\ data.source_platform = None
                   THEN [ data EXCEPT !.source_platform = platform ]
                   ELSE data
    IN  IF data.tag = "none" THEN NoLead
        ELSE create_lead_from_extraction(stamped, method)

is_valid(l) == l.email \/ l.phone

(***************************************************************************)
(* EmailProcessor: the CRM side of process_email.                          *)
(***************************************************************************)

ZeroMetrics == [ emails_processed |-> 0, leads_created |-> 0, leads_updated |-> 0,
                 extraction_failures |-> 0, ghl_failures |-> 0 ]

ZeroCalls == [ extract |-> 0, search |-> 0, create |-> 0, update |-> 0, opportunity |-> 0 ]
ZeroEffects == [ created |-> 0, opened |-> 0 ]
NoLastResult == [ uid |-> 0, status |-> None ]
NoContact == [ found |-> FALSE, id |-> None ]
NoResult == [ action |-> None, contact_id |-> None, status |-> None ]

\* What one search_contacts request can do: raise, return no usable contact, return one.
SearchOutcomes == { "raise", "empty", "hit" }

\* find_existing_contact: the three lookups in order, each inside its own try/except.
\* o1, o2, o3 are the outcomes of the searches by e-mail, phone and name+date.
find_existing_contact(l, o1, o2, o3) ==
    LET hit1 == l.email /\ o1 = "hit"
        ask2 == ~hit1 /\ l.phone
        hit2 == ask2 /\ o2 = "hit"
        ask3 == ~hit1 /\ ~hit2 /\ l.name_date
        hit3 == ask3 /\ o3 = "hit"
    IN  [ found |-> hit1 \/ hit2 \/ hit3,
          searches |-> (IF l.email THEN 1 ELSE 0) + (IF ask2 THEN 1 ELSE 0)
                          + (IF ask3 THEN 1 ELSE 0),
          raised |-> (l.email /\ o1 = "raise") \/ (ask2 /\ o2 = "raise")
                        \/ (ask3 /\ o3 = "raise") ]

\* What one create_sales_opportunity call can do: no pipeline / no stage found
\* (returns False), create_opportunity raises (caught, returns False), or the
\* record is opened (returns True).
OpportunityOutcomes == { "no_pipeline", "no_stage", "raise", "opened" }

(***************************************************************************)
(* IMAPClient.connect: the call in progress and the session it works on.   *)
(***************************************************************************)

MAX_RECONNECT_ATTEMPTS == 5
BASE_RETRY_DELAY == 2
MaxDepth == 2      \* connect() frames nested through ensure_connected

\* A client just constructed: no session, no connect() call made.
\*   pc        position of the innermost connect() frame ("idle": no call in progress)
\*   stack     the `attempt` argument of each active connect() frame, outermost first
\*   session   self.connection: "none", "nonauth" (opened) or "authed" (logged in)
\*   attempts  history: sessions this top-level call tried to open (IMAP4_SSL(...))
\*   failed    history: attempts of this top-level call that ended in the retry handler
\*   slept     history: seconds this top-level call spent in time.sleep
\*   outcome   how the last top-level call ended: "returned", "raised" or "none"
\*   cause     history: the failure the last raise of IMAPConnectionError came from
\*   is_idle   self._is_idle
\*   probe     history: what the liveness test at the last entry of connect() found:
\*             "alive", "dead", or "none" when there was no session to probe
NoConnect ==
    [ pc |-> "idle", stack |-> << >>, session |-> "none", attempts |-> 0, failed |-> 0,
      slept |-> 0, outcome |-> "none", cause |-> None, is_idle |-> FALSE,
      probe |-> "none" ]

\* What a request to the server can do: succeed, raise imaplib.IMAP4.error (a
\* protocol error, abort included), or raise something else (OSError: refused,
\* unreachable, socket timeout).
NetOutcomes == { "ok", "imap_error", "socket_error" }

\* 2 ** n
RECURSIVE Pow2(_)
Pow2(n) == IF n = 0 THEN 1 ELSE 2 * Pow2(n - 1)

\* The `attempt` argument of the innermost connect() frame.
Attempt(c) == c.stack[Len(c.stack)]

\* `return self.connection` in the innermost frame: the top-level call returns,
\* or ensure_connected returns into select_folder of the frame below.
ConnectReturn(c) ==
    IF Len(c.stack) = 1
    THEN [ c EXCEPT !.pc = "idle", !.stack = << >>, !.outcome = "returned" ]
    ELSE [ c EXCEPT !.pc = "select", !.stack = SubSeq(c.stack, 1, Len(c.stack) - 1) ]

\* IMAPConnectionError leaves the innermost frame: every frame below called it
\* from inside its try block, where `except Exception` raises it again.
ConnectRaise(c, cause) ==
    [ c EXCEPT !.pc = "idle", !.stack = << >>, !.outcome = "raised", !.cause = cause ]

\* connect(), lines 146-165: the two except clauses of the innermost frame.
\* IMAP4.error: sleep BASE_RETRY_DELAY * 2 ** (attempt - 1) and call
\* connect(attempt + 1) while attempt < MAX_RECONNECT_ATTEMPTS, else raise
\* IMAPConnectionError; any other exception: raise IMAPConnectionError at once.
ConnectFailed(c, kind) ==
    IF kind = "imap_error"
    THEN IF Attempt(c) < MAX_RECONNECT_ATTEMPTS
         THEN [ c EXCEPT !.pc = "entry", !.failed = @ + 1,
                         !.slept = @ + BASE_RETRY_DELAY * Pow2(Attempt(c) - 1),
                         !.stack[Len(c.stack)] = @ + 1 ]
         ELSE ConnectRaise([ c EXCEPT !.failed = @ + 1 ], "exhausted")
    ELSE ConnectRaise(c, kind)

\* connect(attempt = 1) is called: a new top-level frame; the histories of the
\* call start afresh.
connect_called(c) ==
    [ c EXCEPT !.pc = "entry", !.stack = << 1 >>, !.attempts = 0, !.failed = 0,
               !.slept = 0, !.outcome = "none", !.cause = None, !.probe = "none" ]

\* An entry test that opens a new session whatever the probe says.
connect_entry_reopen(c, alive) ==
    [ c EXCEPT !.pc = "open",
               !.probe = IF c.session = "none" THEN "none"
                         ELSE IF alive THEN "alive" ELSE "dead" ]

\* connect(), lines 130-131: `if self.connection and self._is_connected(): return
\* self.connection`; with no session `and` does not evaluate the probe.
connect_entry(c, alive) ==
    IF c.session = "none"
    THEN [ c EXCEPT !.pc = "open", !.probe = "none" ]
    ELSE IF alive
    THEN ConnectReturn([ c EXCEPT !.probe = "alive" ])
    ELSE [ c EXCEPT !.pc = "open", !.probe = "dead" ]

(***************************************************************************)
(* Spec: the daemon.  EmailProcessor.run, check_new_emails, process_email. *)
(***************************************************************************)

RECURSIVE Ascending(_)
\* The identifiers of S in the order the server lists them (ascending).
Ascending(S) ==
    IF S = {} THEN << >>
    ELSE LET m == CHOOSE x \in S : \A y \in S : x <= y
         IN  << m >> \o Ascending(S \ { m })

\* The message the for loop of check_new_emails is at.
cur == emails[idx]

\* Positions inside process_email, past the ledger check and before its return.
InProcessEmail ==
    pc \in { "extract", "extraction_failed", "find", "update", "update_opportunity",
             "create", "create_opportunity", "mark" }

locals == << lead, existing, result, run_calls, run_failed, run_counted >>

\* The locals of process_email / create_or_update_contact are gone at its return.
ResetLocals ==
    /\ lead' = NoLead
    /\ existing' = NoContact
    /\ result' = NoResult
    /\ run_calls' = ZeroCalls
    /\ run_failed' = {}
    /\ run_counted' = FALSE

\* run(): the initial self.imap_client.connect(); IMAPConnectionError makes run() return.
\* After a successful connect the client holds a session (self.connection is set).
InitialConnect ==
    /\ UNCHANGED cycles
    /\ pc = "start"
    /\ \E ok \in BOOLEAN :
          /\ pc' = IF ok THEN "loop" ELSE "exited"
          /\ conn' = IF ok THEN [ NoConnect EXCEPT !.session = "authed" ] ELSE NoConnect
    /\ UNCHANGED << running, metrics, emails, idx, use_ai, effects, lastResult,
                    prevDelivered, interrupted, pending, crashes >>
    /\ UNCHANGED locals
    /\ UNCHANGED ledgerVars

\* A cleanup that leaves the session open.
close_skipped == conn

\* IMAPClient.close(): close and logout, and in any case self.connection = None.
close == NoConnect

\* run(): `while self._running` found false: log_metrics, imap_client.close().
LoopExit ==
    /\ UNCHANGED cycles
    /\ pc = "loop"
    /\ ~running
    /\ pc' = "exited"
    /\ conn' = close
    /\ UNCHANGED << running, metrics, emails, idx, use_ai, effects, lastResult,
                    prevDelivered, interrupted, pending, crashes >>
    /\ UNCHANGED locals
    /\ UNCHANGED ledgerVars

\* A handler that counts the connection error as a CRM failure.
ConnectionErrorCaught_counted ==
    /\ emails' = << >>
    /\ pc' = "sleep"
    /\ prevDelivered' = {}
    /\ metrics' = [ metrics EXCEPT !.ghl_failures = @ + 1 ]
    /\ lastResult' = [ uid |-> 0, status |-> "connection_error" ]

\* check_new_emails(), lines 545-548: `except IMAPConnectionError` logs the error
\* and returns 0; no message was handed to process_email.
ConnectionErrorCaught ==
    /\ emails' = << >>
    /\ pc' = "sleep"
    /\ prevDelivered' = {}
    /\ metrics' = metrics
    /\ lastResult' = [ uid |-> 0, status |-> "connection_error" ]

\* check_new_emails() up to the for loop: fetch_new_emails() raises
\* IMAPConnectionError (caught: return 0), or returns the messages of the server's
\* UNSEEN list whose fetch_by_uid did not return None (any of the listed ones may
\* be left out); an empty list returns 0 at once.
FetchNewEmails ==
    /\ pc = "loop"
    /\ running
    /\ cycles < MaxCycles
    /\ cycles' = cycles + 1
    /\ UNCHANGED conn
    /\ \/ ConnectionErrorCaught
       \/ /\ \E fetched \in SUBSET Uids :
                /\ emails' = Ascending(fetched)
                /\ pc' = IF fetched = {} THEN "sleep" ELSE "for"
                /\ prevDelivered' = IF fetched = {} THEN {} ELSE prevDelivered
          /\ UNCHANGED << metrics, lastResult >>
    /\ idx' = 1
    /\ UNCHANGED << running, use_ai, effects, interrupted, pending, crashes >>
    /\ UNCHANGED locals
    /\ UNCHANGED ledgerVars

\* check_new_emails(): the for loop is over, or `if not self._running: break`;
\* return len(emails).  The messages before position idx went through process_email.
ForDone ==
    /\ UNCHANGED << cycles, conn >>
    /\ pc = "for"
    /\ idx > Len(emails) \/ ~running
    /\ pc' = "sleep"
    /\ prevDelivered' = { emails[j] : j \in 1 .. (idx - 1) }
    /\ emails' = << >>
    /\ idx' = 1
    /\ lastResult' = NoLastResult
    /\ UNCHANGED << running, metrics, use_ai, effects, interrupted, pending, crashes >>
    /\ UNCHANGED locals
    /\ UNCHANGED ledgerVars

\* A process_email that never consults the ledger.
ProcessEmailBegin_nocheck ==
    /\ UNCHANGED << cycles, conn >>
    /\ pc = "for"
    /\ idx <= Len(emails) /\ running
    /\ pc' = "extract"
    /\ UNCHANGED << running, metrics, emails, idx, use_ai, effects, lastResult,
                    prevDelivered, interrupted, pending, crashes >>
    /\ UNCHANGED locals
    /\ UNCHANGED ledgerVars

\* A process_email that counts a skipped message as processed.
ProcessEmailBegin_countskip ==
    /\ UNCHANGED << cycles, conn >>
    /\ pc = "for"
    /\ idx <= Len(emails) /\ running
    /\ IF is_processed(ledger, cur)
       THEN /\ lastResult' = [ uid |-> cur, status |-> "skipped" ]
            /\ metrics' = [ metrics EXCEPT !.emails_processed = @ + 1 ]
            /\ idx' = idx + 1
            /\ pc' = "for"
       ELSE /\ pc' = "extract"
            /\ UNCHANGED << lastResult, idx, metrics >>
    /\ UNCHANGED << running, emails, use_ai, effects, prevDelivered, interrupted,
                    pending, crashes >>
    /\ UNCHANGED locals
    /\ UNCHANGED ledgerVars

\* process_email(), lines 466-476: `if self.tracker.is_processed(uid)` returns
\* {'status': 'skipped', ...}; otherwise processing goes on to the extractor.
ProcessEmailBegin ==
    /\ UNCHANGED << cycles, conn >>
    /\ pc = "for"
    /\ idx <= Len(emails) /\ running
    /\ IF is_processed(ledger, cur)
       THEN /\ lastResult' = [ uid |-> cur, status |-> "skipped" ]
            /\ idx' = idx + 1
            /\ pc' = "for"
       ELSE /\ pc' = "extract"
            /\ UNCHANGED << lastResult, idx >>
    /\ UNCHANGED << running, metrics, emails, use_ai, effects, prevDelivered,
                    interrupted, pending, crashes >>
    /\ UNCHANGED locals
    /\ UNCHANGED ledgerVars

\* The ledger write of process_email.
MarkCurrent(contact_id, platform, status) ==
    /\ ledger' = mark_processed(ledger, cur, now, EmailMessage(cur).from_addr,
                                EmailMessage(cur).subject, contact_id, platform, status)
    /\ everMarked' = everMarked \cup { cur }
    /\ swept' = swept \ { cur }
    /\ pending' = pending \ { cur }
    /\ UNCHANGED << now, lastCall >>

\* An extraction step that writes the ledger row as soon as it holds a valid lead,
\* before the CRM is called.
Extract_mark_first ==
    /\ UNCHANGED << cycles, conn >>
    /\ pc = "extract"
    /\ \E ai \in AiOutcomes :
          LET l == extract(EmailMessage(cur).body, EmailMessage(cur).raw_headers, ai)
          IN  /\ lead' = l
              /\ IF l.tag = "none" \/ ~is_valid(l)
                 THEN pc' = "extraction_failed" /\ UNCHANGED << ledgerVars, pending >>
                 ELSE pc' = "find" /\ MarkCurrent(None, l.source_platform, "success")
    /\ run_calls' = [ run_calls EXCEPT !.extract = @ + 1 ]
    /\ UNCHANGED << running, metrics, emails, idx, existing, result, use_ai, run_failed,
                    run_counted, effects, lastResult, prevDelivered, interrupted,
                    crashes >>

\* process_email(), lines 478-486: self.extractor.extract(...), then the test
\* `if not lead or not lead.is_valid()`.
Extract ==
    /\ UNCHANGED << cycles, conn >>
    /\ pc = "extract"
    /\ \E ai \in AiOutcomes :
          LET l == extract(EmailMessage(cur).body, EmailMessage(cur).raw_headers, ai)
          IN  /\ lead' = l
              /\ pc' = IF l.tag = "none" \/ ~is_valid(l) THEN "extraction_failed" ELSE "find"
    /\ run_calls' = [ run_calls EXCEPT !.extract = @ + 1 ]
    /\ UNCHANGED << running, metrics, emails, idx, existing, result, use_ai, run_failed,
                    run_counted, effects, lastResult, prevDelivered, interrupted, pending,
                    crashes >>
    /\ UNCHANGED ledgerVars

\* An extraction failure that is recorded in the ledger and not counted.
ExtractionFailed_uncounted ==
    /\ UNCHANGED << cycles, conn >>
    /\ pc = "extraction_failed"
    /\ MarkCurrent(None, None, "extraction_failed")
    /\ lastResult' = [ uid |-> cur, status |-> "failed" ]
    /\ idx' = idx + 1
    /\ pc' = "for"
    /\ ResetLocals
    /\ UNCHANGED << running, metrics, emails, use_ai, effects, prevDelivered,
                    interrupted, crashes >>

\* process_email(), lines 487-498: count the failure, mark 'extraction_failed',
\* return {'status': 'failed', ...}.
ExtractionFailed ==
    /\ UNCHANGED << cycles, conn >>
    /\ pc = "extraction_failed"
    /\ metrics' = [ metrics EXCEPT !.extraction_failures = @ + 1 ]
    /\ MarkCurrent(None, None, "extraction_failed")
    /\ lastResult' = [ uid |-> cur, status |-> "failed" ]
    /\ idx' = idx + 1
    /\ pc' = "for"
    /\ ResetLocals
    /\ UNCHANGED << running, emails, use_ai, effects, prevDelivered, interrupted,
                    crashes >>

\* create_or_update_contact(), line 362: existing = self.find_existing_contact(lead).
\* A search that raises is logged inside find_existing_contact and nothing else.
FindExisting ==
    /\ UNCHANGED << cycles, conn >>
    /\ pc = "find"
    /\ \E o1 \in SearchOutcomes, o2 \in SearchOutcomes, o3 \in SearchOutcomes :
          LET f == find_existing_contact(lead, o1, o2, o3)
          IN  /\ existing' = [ found |-> f.found,
                               id |-> IF f.found THEN "contact_existing" ELSE None ]
              /\ run_calls' = [ run_calls EXCEPT !.search = @ + f.searches ]
              /\ run_failed' = IF f.raised THEN run_failed \cup { "search" } ELSE run_failed
              /\ pc' = IF f.found THEN "update" ELSE "create"
    /\ UNCHANGED << running, metrics, emails, idx, lead, result, use_ai, run_counted,
                    effects, lastResult, prevDelivered, interrupted, pending, crashes >>
    /\ UNCHANGED ledgerVars

\* create_or_update_contact(), lines 366-384 and 411-419: update_contact on the
\* existing contact; on an exception ghl_failures is counted and the dict
\* {'action': 'update_failed', 'contact_id': ..., 'status': 'error'} returned.
UpdateContact ==
    /\ UNCHANGED << cycles, conn >>
    /\ pc = "update"
    /\ run_calls' = [ run_calls EXCEPT !.update = @ + 1 ]
    /\ \E ok \in BOOLEAN :
          IF ok
          THEN /\ metrics' = [ metrics EXCEPT !.leads_updated = @ + 1 ]
               /\ pc' = "update_opportunity"
               /\ UNCHANGED << result, run_failed, run_counted >>
          ELSE /\ metrics' = [ metrics EXCEPT !.ghl_failures = @ + 1 ]
               /\ result' = [ action |-> "update_failed", contact_id |-> existing.id,
                              status |-> "error" ]
               /\ run_failed' = run_failed \cup { "update" }
               /\ run_counted' = TRUE
               /\ pc' = "mark"
    /\ UNCHANGED << running, emails, idx, lead, existing, use_ai, effects, lastResult,
                    prevDelivered, interrupted, pending, crashes >>
    /\ UNCHANGED ledgerVars

\* One create_sales_opportunity call for the current message: create_opportunity
\* is reached unless the pipeline or stage lookup came back empty, and every
\* exception is caught inside (logged, returns False).
create_sales_opportunity(o) ==
    /\ run_calls' = [ run_calls EXCEPT !.opportunity =
                         @ + (IF o \in { "raise", "opened" } THEN 1 ELSE 0) ]
    /\ effects' = [ effects EXCEPT ![cur].opened = @ + (IF o = "opened" THEN 1 ELSE 0) ]
    /\ run_failed' = IF o = "raise" THEN run_failed \cup { "opportunity" } ELSE run_failed

\* create_or_update_contact(), lines 386-409: when a SALES pipeline is found,
\* create_sales_opportunity for the existing contact; then the dict
\* {'action': 'updated', 'contact_id': ..., 'status': 'success'} is returned.
UpdateOpportunity ==
    /\ UNCHANGED << cycles, conn >>
    /\ pc = "update_opportunity"
    /\ \/ \E o \in OpportunityOutcomes : create_sales_opportunity(o)
       \/ UNCHANGED << run_calls, effects, run_failed >>
    /\ result' = [ action |-> "updated", contact_id |-> existing.id, status |-> "success" ]
    /\ pc' = "mark"
    /\ UNCHANGED << running, metrics, emails, idx, lead, existing, use_ai, run_counted,
                    lastResult, prevDelivered, interrupted, pending, crashes >>
    /\ UNCHANGED ledgerVars

\* create_or_update_contact(), lines 421-436 and 447-454: create_contact; on an
\* exception ghl_failures is counted and {'action': 'create_failed',
\* 'status': 'error'} returned (no 'contact_id' key).
CreateContact ==
    /\ UNCHANGED << cycles, conn >>
    /\ pc = "create"
    /\ run_calls' = [ run_calls EXCEPT !.create = @ + 1 ]
    /\ \E ok \in BOOLEAN :
          IF ok
          THEN /\ metrics' = [ metrics EXCEPT !.leads_created = @ + 1 ]
               /\ effects' = [ effects EXCEPT ![cur].created = @ + 1 ]
               /\ existing' = [ found |-> FALSE, id |-> "contact_new" ]
               /\ pc' = "create_opportunity"
               /\ UNCHANGED << result, run_failed, run_counted >>
          ELSE /\ metrics' = [ metrics EXCEPT !.ghl_failures = @ + 1 ]
               /\ result' = [ action |-> "create_failed", contact_id |-> None,
                              status |-> "error" ]
               /\ run_failed' = run_failed \cup { "create" }
               /\ run_counted' = TRUE
               /\ pc' = "mark"
               /\ UNCHANGED << effects, existing >>
    /\ UNCHANGED << running, emails, idx, lead, use_ai, lastResult, prevDelivered,
                    interrupted, pending, crashes >>
    /\ UNCHANGED ledgerVars

\* A create path that also counts a failed pipeline record in ghl_failures.
CreateOpportunity_counted ==
    /\ UNCHANGED << cycles, conn >>
    /\ pc = "create_opportunity"
    /\ \E o \in OpportunityOutcomes :
          /\ create_sales_opportunity(o)
          /\ metrics' = IF o = "opened" THEN metrics
                        ELSE [ metrics EXCEPT !.ghl_failures = @ + 1 ]
    /\ result' = [ action |-> "created", contact_id |-> existing.id, status |-> "success" ]
    /\ pc' = "mark"
    /\ UNCHANGED << running, emails, idx, lead, existing, use_ai, run_counted,
                    lastResult, prevDelivered, interrupted, pending, crashes >>
    /\ UNCHANGED ledgerVars

\* create_or_update_contact(), lines 438-445: create_sales_opportunity for the new
\* contact (its boolean result is not looked at), then {'action': 'created',
\* 'contact_id': ..., 'status': 'success'}.
CreateOpportunity ==
    /\ UNCHANGED << cycles, conn >>
    /\ pc = "create_opportunity"
    /\ \E o \in OpportunityOutcomes : create_sales_opportunity(o)
    /\ result' = [ action |-> "created", contact_id |-> existing.id, status |-> "success" ]
    /\ pc' = "mark"
    /\ UNCHANGED << running, metrics, emails, idx, lead, existing, use_ai, run_counted,
                    lastResult, prevDelivered, interrupted, pending, crashes >>
    /\ UNCHANGED ledgerVars

\* process_email(), lines 503-516: mark_processed(uid, ..., status=result.get('status',
\* 'success')), then emails_processed += 1, and the result is returned.
MarkProcessed ==
    /\ UNCHANGED << cycles, conn >>
    /\ pc = "mark"
    /\ MarkCurrent(result.contact_id, lead.source_platform, result.status)
    /\ metrics' = [ metrics EXCEPT !.emails_processed = @ + 1 ]
    /\ lastResult' = [ uid |-> cur, status |-> result.status ]
    /\ idx' = idx + 1
    /\ pc' = "for"
    /\ ResetLocals
    /\ UNCHANGED << running, emails, use_ai, effects, prevDelivered, interrupted,
                    crashes >>

\* run(): time.sleep(CHECK_INTERVAL), then back to the while test.  The daemon
\* only stamps rows with the clock and never compares times (it never calls
\* cleanup_old_records), so Spec lets the clock stand; SpecLedger advances it.
Sleep ==
    /\ UNCHANGED << cycles, conn >>
    /\ pc = "sleep"
    /\ pc' = "loop"
    /\ lastResult' = NoLastResult
    /\ UNCHANGED ledgerVars
    /\ UNCHANGED << running, metrics, emails, idx, use_ai, effects, prevDelivered,
                    interrupted, pending, crashes >>
    /\ UNCHANGED locals

\* _signal_handler: SIGTERM / SIGINT, delivered at any point of the run.
SignalHandler ==
    /\ UNCHANGED << cycles, conn >>
    /\ pc # "exited"
    /\ running
    /\ running' = FALSE
    /\ UNCHANGED << pc, metrics, emails, idx, use_ai, effects, lastResult,
                    prevDelivered, interrupted, pending, crashes >>
    /\ UNCHANGED locals
    /\ UNCHANGED ledgerVars

\* The process is killed at any point and started again (main() -> EmailProcessor()
\* -> run()): everything but the ledger file is built anew.
KillAndRestart ==
    /\ UNCHANGED cycles
    /\ conn' = NoConnect
    /\ crashes < MaxCrashes
    /\ crashes' = crashes + 1
    /\ interrupted' = IF InProcessEmail
                      THEN [ interrupted EXCEPT ![cur] = @ + 1 ]
                      ELSE interrupted
    /\ pending' = IF InProcessEmail THEN pending \cup { cur } ELSE pending
    /\ pc' = "start"
    /\ running' = TRUE
    /\ metrics' = ZeroMetrics
    /\ emails' = << >>
    /\ idx' = 1
    /\ prevDelivered' = IF pc = "for" \/ InProcessEmail THEN {} ELSE prevDelivered
    /\ ResetLocals
    /\ lastResult' = NoLastResult
    /\ UNCHANGED << use_ai, effects >>
    /\ UNCHANGED ledgerVars

Init ==
    /\ ledger = {}
    /\ now = 0
    /\ everMarked = {}
    /\ swept = {}
    /\ lastCall = NoCall
    /\ pc = "start"
    /\ running = TRUE
    /\ metrics = ZeroMetrics
    /\ emails = << >>
    /\ idx = 1
    /\ lead = NoLead
    /\ existing = NoContact
    /\ result = NoResult
    /\ use_ai \in BOOLEAN
    /\ run_calls = ZeroCalls
    /\ run_failed = {}
    /\ run_counted = FALSE
    /\ effects = [ u \in Uids |-> ZeroEffects ]
    /\ lastResult = NoLastResult
    /\ prevDelivered = {}
    /\ interrupted = [ u \in Uids |-> 0 ]
    /\ pending = {}
    /\ crashes = 0
    /\ cycles = 0
    /\ conn = NoConnect

Next ==
    \/ InitialConnect
    \/ LoopExit
    \/ FetchNewEmails
    \/ ForDone
    \/ ProcessEmailBegin
    \/ Extract
    \/ ExtractionFailed
    \/ FindExisting
    \/ UpdateContact
    \/ UpdateOpportunity
    \/ CreateContact
    \/ CreateOpportunity
    \/ MarkProcessed
    \/ Sleep
    \/ SignalHandler
    \/ KillAndRestart

Spec == Init /\ [][Next]_vars

\* The steps of the daemon's single thread: everything but the arrival of a signal.
DaemonStep ==
    \/ InitialConnect
    \/ LoopExit
    \/ FetchNewEmails
    \/ ForDone
    \/ ProcessEmailBegin
    \/ Extract
    \/ ExtractionFailed
    \/ FindExisting
    \/ UpdateContact
    \/ UpdateOpportunity
    \/ CreateContact
    \/ CreateOpportunity
    \/ MarkProcessed
    \/ Sleep

\* One run of the daemon that is never killed: its thread and the signal handler.
NextShutdown ==
    \/ InitialConnect
    \/ LoopExit
    \/ FetchNewEmails
    \/ ForDone
    \/ ProcessEmailBegin
    \/ Extract
    \/ ExtractionFailed
    \/ FindExisting
    \/ UpdateContact
    \/ UpdateOpportunity
    \/ CreateContact
    \/ CreateOpportunity
    \/ MarkProcessed
    \/ Sleep
    \/ SignalHandler

\* The thread keeps running: time.sleep(CHECK_INTERVAL) returns, every CRM request
\* carries timeout=30 and the IMAP socket a timeout, so no statement blocks for ever.
SpecShutdown == Init /\ [][NextShutdown]_vars /\ WF_vars(DaemonStep)

NextLedger ==
    \/ TrackerMarkProcessed
    \/ TrackerCleanup
    \/ TrackerIsProcessed
    \/ Tick

SpecLedger == Init /\ [][NextLedger]_vars

(***************************************************************************)
(* SpecExtract: one EmailExtractor instance serving extract() calls.       *)
(***************************************************************************)

MaxExtractCalls == 7   \* extract() calls one extractor instance serves

\* The message bodies handed to extract.
\*   body_contact_unsigned   e-mail, phone, name, date and nothing that names a platform
Bodies ==
    { "body_signed_contact", "body_unsigned", "body_signed_nocontact",
      "body_contact_unsigned" }

\* What the sender address and the subject of a message can name.
HeaderTexts == { {}, { "WeddingWire" } }

\* The headers handed to extract: raw_headers of a fetched message, whose names
\* are spelt as in the message ("From", "Subject" as mail software writes them,
\* lower case in a message that spells them so).
HeaderDicts ==
    { [ From |-> f, Subject |-> sj ] : f \in HeaderTexts, sj \in HeaderTexts }
        \cup { [ from |-> f, subject |-> sj ] : f \in HeaderTexts, sj \in HeaderTexts }

\* extract(email_text, ...): lead holds what it returned, lastCall the call.
ExtractCall ==
    /\ run_calls.extract < MaxExtractCalls
    /\ \E body \in Bodies, headers \in HeaderDicts,
          ai \in (IF use_ai THEN AiOutcomes ELSE { None }) :
          /\ lead' = extract(body, headers, ai)
          /\ lastCall' = [ op |-> "extract", body |-> body, headers |-> headers,
                           ai |-> ai, calls |-> extract_calls(body, headers, ai) ]
    /\ run_calls' = [ run_calls EXCEPT !.extract = @ + 1 ]
    /\ UNCHANGED << ledger, now, everMarked, swept, pc, running, metrics, emails, idx,
                    existing, result, use_ai, run_failed, run_counted, effects,
                    lastResult, prevDelivered, interrupted, pending, crashes, cycles,
                    conn >>

NextExtract == ExtractCall

SpecExtract == Init /\ [][NextExtract]_vars

(***************************************************************************)
(* SpecConnect: top-level IMAPClient.connect() calls, one after the other. *)
(***************************************************************************)

nonConnVars == << ledger, now, everMarked, swept, lastCall, pc, running, metrics, emails,
                  idx, lead, existing, result, use_ai, run_calls, run_failed,
                  run_counted, effects, lastResult, prevDelivered, interrupted, pending,
                  crashes, cycles >>

\* A caller calls connect() (attempt = 1).
ConnectBegin ==
    /\ conn.pc = "idle"
    /\ conn' = connect_called(conn)
    /\ UNCHANGED nonConnVars

\* connect(), lines 130-131: `if self.connection and self._is_connected()` returns
\* the session at hand; _is_connected is a NOOP that the server answers or not.
ConnectEntry ==
    /\ conn.pc = "entry"
    /\ \E alive \in BOOLEAN : conn' = connect_entry(conn, alive)
    /\ UNCHANGED nonConnVars

\* connect(), lines 136-137: imaplib.IMAP4_SSL(server, port) and settimeout.
ConnectOpen ==
    /\ conn.pc = "open"
    /\ \E o \in NetOutcomes :
          LET tried == [ conn EXCEPT !.attempts = @ + 1 ]
          IN  conn' = IF o = "ok"
                      THEN [ tried EXCEPT !.session = "nonauth", !.pc = "login" ]
                      ELSE ConnectFailed(tried, o)
    /\ UNCHANGED nonConnVars

\* connect(), line 140: self.connection.login(...).
ConnectLogin ==
    /\ conn.pc = "login"
    /\ \E o \in NetOutcomes :
          conn' = IF o = "ok"
                  THEN [ conn EXCEPT !.session = "authed", !.pc = "probe" ]
                  ELSE ConnectFailed(conn, o)
    /\ UNCHANGED nonConnVars

\* connect(), line 144 -> select_folder(), line 191 -> ensure_connected(): when
\* the NOOP on the session just opened fails, self.connect() is called, a new
\* frame with attempt = 1; past the interpreter's recursion limit that call
\* raises RecursionError, which `except Exception` turns into IMAPConnectionError.
ConnectSelectProbe ==
    /\ conn.pc = "probe"
    /\ \E alive \in BOOLEAN :
          conn' = IF alive THEN [ conn EXCEPT !.pc = "select" ]
                  ELSE IF Len(conn.stack) < MaxDepth
                  THEN [ conn EXCEPT !.pc = "entry", !.stack = Append(@, 1) ]
                  ELSE ConnectRaise(conn, "recursion")
    /\ UNCHANGED nonConnVars

\* select_folder(), lines 192-199: self.connection.select(folder); IMAP4.error is
\* logged and raised again, into the except clauses of connect().
ConnectSelect ==
    /\ conn.pc = "select"
    /\ \E o \in NetOutcomes :
          conn' = IF o = "ok" THEN ConnectReturn(conn) ELSE ConnectFailed(conn, o)
    /\ UNCHANGED nonConnVars

NextConnect ==
    \/ ConnectBegin
    \/ ConnectEntry
    \/ ConnectOpen
    \/ ConnectLogin
    \/ ConnectSelectProbe
    \/ ConnectSelect

SpecConnect == Init /\ [][NextConnect]_vars

(***************************************************************************)
(* Properties of the ledger (checked under SpecLedger).                    *)
(***************************************************************************)

\* C8: is_processed(id) is false on a ledger on which mark_processed(id, ...) was
\* never called, and true right after mark_processed(id, ...) returns, whatever
\* the other arguments of the call; marking another identifier does not make an
\* identifier that is marked (and not swept since) unprocessed.
C8_FalseBeforeTrueAfterMark ==
    /\ \A u \in Uids : u \notin everMarked => ~is_processed(ledger, u)
    /\ lastCall.op = "mark_processed" =>
          /\ is_processed(ledger, lastCall.uid)
          /\ \A u \in everMarked \ swept : is_processed(ledger, u)

\* C8 witness: a mark with a non-default status has just returned for one
\* identifier while another identifier, marked before it, is still answered true.
C8_Witness ==
    /\ lastCall.op = "mark_processed"
    /\ lastCall.args.status = "error"
    /\ is_processed(ledger, lastCall.uid)
    /\ \E u \in everMarked : u # lastCall.uid /\ is_processed(ledger, u)

\* C9 as stated: in every reachable ledger state, is_processed(id) is true if and
\* only if a mark_processed call for id has committed before.
C9_ProcessedIffMarked ==
    \A u \in Uids : is_processed(ledger, u) <=> u \in everMarked

\* C9 amended: is_processed(id) is true if and only if a mark_processed call for id
\* has committed and no cleanup_old_records call since the last such call has
\* deleted the entry (its processed-at lying before the cutoff of that cleanup).
C9_ProcessedIffMarkedAndNotSwept ==
    \A u \in Uids : is_processed(ledger, u) <=> (u \in everMarked /\ u \notin swept)

\* C9 witness: a cleanup has just deleted the entry of a marked identifier and kept
\* the entry of another one.
C9_Witness ==
    /\ lastCall.op = "cleanup_old_records"
    /\ lastCall.deleted = 1
    /\ \E u \in swept : ~is_processed(ledger, u)
    /\ \E u \in everMarked \ swept : is_processed(ledger, u)

\* C10: the ledger holds at most one entry per identifier; after mark_processed
\* returns, the entry of its identifier carries the sender, subject, contact id,
\* platform, status and processed-at of that call, also when the identifier had
\* an entry before.
C10_OneEntryPerUidLastWriteWins ==
    /\ \A u \in Uids : Cardinality(RowsOf(ledger, u)) <= 1
    /\ lastCall.op = "mark_processed" =>
          RowsOf(ledger, lastCall.uid) =
              { Row(lastCall.uid, lastCall.at, lastCall.args.email_from,
                    lastCall.args.subject, lastCall.args.contact_id,
                    lastCall.args.platform, lastCall.args.status) }

\* C10 witness: a second mark_processed for an identifier has just returned, and
\* the entry it replaced differed from the new one in every column but the uid.
C10_Witness ==
    /\ lastCall.op = "mark_processed"
    /\ \E old \in lastCall.replaced :
          /\ old.processed_at # lastCall.at
          /\ old.email_from # lastCall.args.email_from
          /\ old.subject # lastCall.args.subject
          /\ old.contact_id # lastCall.args.contact_id
          /\ old.platform # lastCall.args.platform
          /\ old.status # lastCall.args.status
    /\ Cardinality(RowsOf(ledger, lastCall.uid)) = 1

(***************************************************************************)
(* Properties of the daemon (checked under Spec).                          *)
(***************************************************************************)

\* The step taken is check_new_emails calling process_email for the message at
\* idx (not a signal, not a kill).
ProcessEmailCalled ==
    /\ pc = "for"
    /\ running
    /\ idx <= Len(emails)
    /\ running' = running
    /\ crashes' = crashes

\* The step taken is process_email writing the ledger row of a message that went
\* through create_or_update_contact, and returning.
SyncedAndMarked == pc = "mark" /\ pc' = "for"

\* C1 as stated: over any run (poll cycles, re-deliveries, kills and restarts, the
\* ledger file kept), no message identifier has a contact created for it more
\* than once, nor a sales-pipeline record opened for it more than once.
C1_AtMostOncePerUid ==
    \A u \in Uids : effects[u].created <= 1 /\ effects[u].opened <= 1

\* C1 amended: for each message identifier, a contact is created at most once,
\* and a sales-pipeline record opened at most once, plus at most once more for
\* every kill of the process that hit that message between the ledger check and
\* the ledger write of process_email.
C1_AtMostOncePerUidAndInterruption ==
    \A u \in Uids :
        /\ effects[u].created <= 1 + interrupted[u]
        /\ effects[u].opened <= 1 + interrupted[u]

\* C1 witness: a message was hit once by a kill inside process_email, was
\* delivered again after the restart and is now recorded in the ledger, with two
\* contacts and two pipeline records made for it.
C1_Witness ==
    \E u \in Uids :
        /\ interrupted[u] = 1
        /\ effects[u].created = 2
        /\ effects[u].opened = 2
        /\ RowsOf(ledger, u) # {}

\* C2: when process_email is called for a message identifier that has a ledger
\* entry, it returns 'skipped' and the loop moves on, the extractor has not been
\* called (no lead, no model or pattern call) and no CRM operation has been
\* called (no search, create, update, pipeline record).
C2_SkipCallsNothing ==
    [][ (ProcessEmailCalled /\ RowsOf(ledger, cur) # {}) =>
            /\ lastResult' = [ uid |-> cur, status |-> "skipped" ]
            /\ pc' = "for" /\ idx' = idx + 1
            /\ run_calls' = ZeroCalls /\ run_calls = ZeroCalls
            /\ lead' = NoLead /\ existing' = NoContact /\ result' = NoResult
            /\ effects' = effects ]_vars

\* C2 witness: a message whose ledger entry says 'extraction_failed' has just
\* been skipped, with no call made.
C2_Witness ==
    /\ lastResult.status = "skipped"
    /\ run_calls = ZeroCalls
    /\ \E r \in ledger : r.uid = lastResult.uid /\ r.status = "extraction_failed"

\* C3: when a message that the previous finished poll cycle handed to
\* process_email is delivered again, processing it makes no CRM call and leaves
\* the five counters and the ledger (so the message's entry) as they were.
C3_RedeliveryChangesNothing ==
    [][ (ProcessEmailCalled /\ cur \in prevDelivered) =>
            /\ run_calls' = ZeroCalls /\ run_calls = ZeroCalls
            /\ effects' = effects
            /\ metrics' = metrics
            /\ ledger' = ledger
            /\ pc' = "for" ]_vars

\* C3 witness: in the cycle after the one that created a contact for it, the
\* message has been skipped and the counters stand where the first cycle left them.
C3_Witness ==
    /\ lastResult.status = "skipped"
    /\ lastResult.uid \in prevDelivered
    /\ metrics.emails_processed = 1
    /\ metrics.leads_created = 1
    /\ \E r \in ledger : r.uid = lastResult.uid /\ r.contact_id = "contact_new"

C5_CrmFailureRecordedAsFailure ==
    [][ (SyncedAndMarked /\ run_failed # {}) =>
            /\ \E r \in ledger' : r.uid = cur /\ r.status # "success"
            /\ idx' = idx + 1 ]_vars

\* C6 as stated: every ledger entry written by process_email has a status in
\* {success, extraction_failed, create_failed, update_failed}.
C6_StatusVocabulary ==
    \A r \in ledger :
        r.status \in { "success", "extraction_failed", "create_failed", "update_failed" }

\* C7 as stated: when a CRM call (search, create, update, opening the pipeline
\* record) failed during a message's handling, a failure counter has been
\* incremented or the message's ledger entry carries a non-success status.
C7_EveryFailureLeavesTrace ==
    [][ (SyncedAndMarked /\ run_failed # {}) =>
            \/ run_counted
            \/ \E r \in ledger' : r.uid = cur /\ r.status # "success" ]_vars

\* The step taken is the daemon moving on from position p (not a signal, which
\* leaves the position alone, and not a kill, which goes back to the start).
Leaves(p) == pc = p /\ pc' # p /\ pc' # "start"

\* The CRM operations among the collaborator calls of the current process_email.
NoCrmCall ==
    /\ run_calls.search = 0 /\ run_calls.create = 0
    /\ run_calls.update = 0 /\ run_calls.opportunity = 0

\* C11: when the extractor returns no lead or a lead with neither e-mail nor
\* phone, process_email takes the failure path, on which it records the message
\* with status 'extraction_failed' (no contact id), has made no CRM call,
\* increments extraction_failures by one and leaves the other counters; a message
\* recorded 'extraction_failed' is skipped when delivered again.  A message
\* without platform signature fails this way when no model is configured.
C11_ExtractionFailureIsTerminal ==
    [][ /\ Leaves("extract") =>
              /\ (lead'.tag = "none" \/ ~(lead'.email \/ lead'.phone))
                     <=> pc' = "extraction_failed"
              /\ (~use_ai /\ EmailMessage(cur).body = "body_unsigned")
                     => (lead'.tag = "none" /\ pc' = "extraction_failed")
        /\ Leaves("extraction_failed") =>
              /\ NoCrmCall
              /\ effects' = effects
              /\ pc' = "for" /\ idx' = idx + 1
              /\ RowsOf(ledger', cur) =
                    { Row(cur, now, EmailMessage(cur).from_addr, EmailMessage(cur).subject,
                          None, None, "extraction_failed") }
              /\ metrics' = [ metrics EXCEPT !.extraction_failures = @ + 1 ]
        /\ (ProcessEmailCalled
               /\ \E r \in ledger : r.uid = cur /\ r.status = "extraction_failed") =>
              /\ pc' = "for" /\ idx' = idx + 1
              /\ lastResult'.status = "skipped"
              /\ ledger' = ledger /\ metrics' = metrics ]_vars

\* C11 witness: with no model configured, a message without platform signature
\* has just been recorded 'extraction_failed' and counted, with no CRM effect.
C11_Witness ==
    /\ ~use_ai
    /\ lastResult.status = "failed"
    /\ EmailMessage(lastResult.uid).body = "body_unsigned"
    /\ \E r \in ledger : r.uid = lastResult.uid /\ r.status = "extraction_failed"
    /\ metrics.extraction_failures = 1
    /\ effects[lastResult.uid] = ZeroEffects

(***************************************************************************)
(* Properties of the extractor (checked under SpecExtract).                *)
(***************************************************************************)

\* The model's answer of the last extract call was no usable result.
ModelSoftFailed == lastCall.ai \in ModelFailures \cup { "empty_object" }

\* C12: extract calls the model first when one is configured and never
\* otherwise; when the model soft-fails or none is configured it calls pattern
\* extraction if the classifier is given a platform signature, in the body or
\* under a header name it reads (result tagged 'regex'), and returns none,
\* calling no pattern extraction, if it is given none; a model result is used
\* (tagged 'ai', no pattern call) with or without a signature.
C12_ExtractStrategy ==
    lastCall.op = "extract" =>
        LET called(sname) == \E i \in 1 .. Len(lastCall.calls) : lastCall.calls[i] = sname
            signed == \/ BodyText(lastCall.body) # {}
                      \/ HeaderGet(lastCall.headers, "from") # {}
                      \/ HeaderGet(lastCall.headers, "subject") # {}
            fallback == ~use_ai \/ ModelSoftFailed
        IN  /\ use_ai <=> called("extract_with_ai")
            /\ use_ai => /\ lastCall.calls[2] = "extract_with_ai"
                          /\ \A i \in 1 .. Len(lastCall.calls) :
                                lastCall.calls[i] = "extract_with_regex" => i > 2
            /\ (fallback /\ signed) =>
                  /\ called("extract_with_regex")
                  /\ lead.tag = "lead" /\ lead.extraction_method = "regex"
            /\ (fallback /\ ~signed) =>
                  /\ ~called("extract_with_regex")
                  /\ lead = NoLead
            /\ ~fallback =>
                  /\ ~called("extract_with_regex")
                  /\ lead.tag = "lead" /\ lead.extraction_method = "ai"

\* C12 witness: a model result has been used for a body without platform signature.
C12_Witness ==
    /\ lastCall.op = "extract"
    /\ lastCall.body = "body_unsigned"
    /\ lastCall.ai = "contact"
    /\ lead.tag = "lead" /\ lead.extraction_method = "ai" /\ lead.source_platform = None

(***************************************************************************)
(* Properties of connect() (checked under SpecConnect).                    *)
(***************************************************************************)

\* C13 as stated: when a top-level connect() call returns after k of its attempts
\* failed, it has slept exactly BASE_RETRY_DELAY * (2^0 + ... + 2^(k-1)) in
\* total; after four failures that is BASE_RETRY_DELAY * (1 + 2 + 4 + 8).
C13_BackoffSum ==
    (conn.outcome = "returned" /\ conn.failed < MAX_RECONNECT_ATTEMPTS) =>
        conn.slept = BASE_RETRY_DELAY * (Pow2(conn.failed) - 1)

\* C14 as stated: a top-level connect() call tries to open a session at most
\* MAX_RECONNECT_ATTEMPTS times, also when the liveness probe of folder
\* selection fails on the session just opened.
C14_AttemptsWithinBudget == conn.attempts <= MAX_RECONNECT_ATTEMPTS

\* C15 as stated: connect() raises IMAPConnectionError only when the attempt
\* budget is used up (MAX_RECONNECT_ATTEMPTS sessions tried), never after a
\* failed attempt while attempts remain.
C15_RaiseOnlyWhenExhausted ==
    conn.outcome = "raised" => conn.attempts >= MAX_RECONNECT_ATTEMPTS

(***************************************************************************)
(* One poll cycle step by step: fetch_new_emails() as the listing followed *)
(* by one fetch_by_uid per listed identifier (SpecCycle).  lastCall holds  *)
(* the listing and the position of the fetch loop in it.                   *)
(***************************************************************************)

\* What search_unseen() can return: messages[0].split(), in the server's order,
\* which the code does not sort; [] on a failed search.
Listings ==
    { l \in UNION { [ 1 .. n -> Uids ] : n \in 0 .. NumMsgs } :
        \A i, j \in 1 .. Len(l) : l[i] = l[j] => i = j }

\* A fetch loop that puts each fetched message in front of the earlier ones.
append_fetched_front(es, uid) == << uid >> \o es

\* fetch_new_emails(), lines 306-309: `if msg: emails.append(msg)`.
append_fetched(es, uid) == Append(es, uid)

\* check_new_emails() -> fetch_new_emails(): ensure_connected() raises
\* IMAPConnectionError (caught by check_new_emails), or search_unseen() returns its
\* list; an empty list makes fetch_new_emails return [] and check_new_emails 0.
SearchUnseen ==
    /\ pc = "loop"
    /\ running
    /\ cycles < MaxCycles
    /\ cycles' = cycles + 1
    /\ UNCHANGED conn
    /\ \/ /\ ConnectionErrorCaught
          /\ UNCHANGED lastCall
       \/ /\ \E l \in Listings :
                /\ lastCall' = [ op |-> "fetch_new_emails", message_ids |-> l, at |-> 1 ]
                /\ pc' = IF l = << >> THEN "sleep" ELSE "fetch"
                /\ prevDelivered' = IF l = << >> THEN {} ELSE prevDelivered
          /\ emails' = << >>
          /\ UNCHANGED << metrics, lastResult >>
    /\ idx' = 1
    /\ UNCHANGED << running, use_ai, effects, interrupted, pending, crashes >>
    /\ UNCHANGED locals
    /\ UNCHANGED << ledger, now, everMarked, swept >>

\* fetch_new_emails(), one turn of `for msg_id in message_ids`: fetch_by_uid(msg_id)
\* returns the message, or None (status not OK, IMAP or parse error: the id is
\* dropped), or its ensure_connected() raises IMAPConnectionError, which ends the
\* cycle in check_new_emails.  Nothing here reads the ledger.
FetchByUid ==
    /\ pc = "fetch"
    /\ lastCall.at <= Len(lastCall.message_ids)
    /\ UNCHANGED << cycles, conn >>
    /\ \E o \in { "message", "none", "raise" } :
          IF o = "raise"
          THEN /\ ConnectionErrorCaught
               /\ UNCHANGED lastCall
          ELSE /\ lastCall' = [ lastCall EXCEPT !.at = @ + 1 ]
               /\ emails' = IF o = "message"
                             THEN append_fetched(emails, lastCall.message_ids[lastCall.at])
                             ELSE emails
               /\ UNCHANGED << pc, prevDelivered, metrics, lastResult >>
    /\ UNCHANGED << running, idx, use_ai, effects, interrupted, pending, crashes >>
    /\ UNCHANGED locals
    /\ UNCHANGED << ledger, now, everMarked, swept >>

\* fetch_new_emails() returns the list; check_new_emails(): `if not emails: return 0`,
\* otherwise on to the for loop.
FetchDone ==
    /\ pc = "fetch"
    /\ lastCall.at > Len(lastCall.message_ids)
    /\ UNCHANGED << cycles, conn >>
    /\ pc' = IF emails = << >> THEN "sleep" ELSE "for"
    /\ prevDelivered' = IF emails = << >> THEN {} ELSE prevDelivered
    /\ UNCHANGED << running, metrics, emails, idx, use_ai, effects, lastResult,
                    interrupted, pending, crashes >>
    /\ UNCHANGED locals
    /\ UNCHANGED ledgerVars

NextCycle ==
    \/ InitialConnect
    \/ LoopExit
    \/ SearchUnseen
    \/ FetchByUid
    \/ FetchDone
    \/ ForDone
    \/ ProcessEmailBegin
    \/ Extract
    \/ ExtractionFailed
    \/ FindExisting
    \/ UpdateContact
    \/ UpdateOpportunity
    \/ CreateContact
    \/ CreateOpportunity
    \/ MarkProcessed
    \/ Sleep
    \/ SignalHandler

SpecCycle == Init /\ [][NextCycle]_vars

(***************************************************************************)
(* SpecClient: a caller uses one IMAPClient, one operation after the other *)
(* (search_unseen, fetch_by_uid, idle_wait, close).  lastCall is the frame *)
(* of the operation in progress or of the last one:                        *)
(*   stage      where the operation is ("done": it returned or raised)     *)
(*   next       where it goes on when a connect() it called returns        *)
(*   onraise    where it goes when that connect() raises: "done", or       *)
(*              "finally" inside the try block of idle_wait                *)
(*   result     what it returned: "list", "empty", "message", "None"       *)
(*   raised     the exception that left it, "none" if it returned          *)
(*   event      history: what the server did to its request                *)
(*   reconnect  history: it called connect() after its request failed      *)
(*   ensured    history: what its ensure_connected() found: "alive", or    *)
(*              "dead" (connect() was called); "none" before the test      *)
(*   at_call    history: the client's state when the operation was called  *)
(*   at_request history: the client's state when the request was issued    *)
(*   waits      turns of the wait loop of idle_wait so far                  *)
(*   n          operations called so far                                   *)
(***************************************************************************)

MaxClientCalls == 2
MaxWaits == 2      \* turns of the `while time.time() - start_time < timeout_seconds` loop

ClientOps == { "search_unseen", "fetch_by_uid", "idle_wait", "close" }

clientRest == << ledger, now, everMarked, swept, pc, running, metrics, emails,
                 idx, lead, existing, result, use_ai, run_calls, run_failed,
                 run_counted, effects, lastResult, prevDelivered, interrupted, pending,
                 crashes, cycles >>

\* The fields of the client object: self.connection and self._is_idle.
ClientState(c) == [ session |-> c.session, is_idle |-> c.is_idle ]

\* The client with the histories of its last connect() cleared.
Forget(c) ==
    [ c EXCEPT !.attempts = 0, !.failed = 0, !.slept = 0, !.outcome = "none",
               !.cause = None, !.probe = "none" ]

\* The operation in progress has ended.
ClientIdle == IF lastCall.op = "none" THEN TRUE ELSE lastCall.stage = "done"

CallsSoFar == IF lastCall.op = "none" THEN 0 ELSE lastCall.n

\* The caller calls one operation of the client.  All but close() begin with
\* ensure_connected().
ClientCall ==
    /\ ClientIdle
    /\ conn.pc = "idle"
    /\ CallsSoFar < MaxClientCalls
    /\ \E op \in ClientOps :
          lastCall' = [ op |-> op, stage |-> IF op = "close" THEN "body" ELSE "ensure",
                        next |-> "body", onraise |-> "done", result |-> "none",
                        raised |-> "none", event |-> "none", reconnect |-> FALSE,
                        ensured |-> "none",
                        at_call |-> ClientState(conn),
                        at_request |-> ClientState(conn), waits |-> 0,
                        n |-> CallsSoFar + 1 ]
    /\ conn' = Forget(conn)
    /\ UNCHANGED clientRest

\* An ensure_connected() that tests nothing and calls nothing.
ClientEnsure_unprobed ==
    /\ ~ ClientIdle
    /\ lastCall.stage = "ensure"
    /\ lastCall' = [ lastCall EXCEPT !.stage = "body", !.at_request = ClientState(conn) ]
    /\ UNCHANGED conn
    /\ UNCHANGED clientRest

\* ensure_connected(): `if not self._is_connected(): self.connect()`; _is_connected
\* is False without a session, else a NOOP whose IMAP4.error or OSError means False.
ClientEnsure ==
    /\ ~ ClientIdle
    /\ lastCall.stage = "ensure"
    /\ \E alive \in BOOLEAN :
          IF conn.session # "none" /\ alive
          THEN /\ lastCall' = [ lastCall EXCEPT !.stage = "body", !.ensured = "alive",
                                                !.at_request = ClientState(conn) ]
               /\ UNCHANGED conn
          ELSE /\ lastCall' = [ lastCall EXCEPT !.stage = "connecting", !.next = "body",
                                                !.onraise = "done", !.ensured = "dead" ]
               /\ conn' = connect_called(conn)
    /\ UNCHANGED clientRest

\* A connect() called by the operation has ended: the operation goes on, or
\* IMAPConnectionError leaves it (through the finally clause inside idle_wait's try).
\* What the call did is in the frame from here on; its histories are cleared.
ClientConnected ==
    /\ ~ ClientIdle
    /\ lastCall.stage = "connecting"
    /\ conn.pc = "idle"
    /\ lastCall' = IF conn.outcome = "raised"
                   THEN [ lastCall EXCEPT !.stage = lastCall.onraise,
                                          !.raised = "IMAPConnectionError",
                                          !.result = "none" ]
                   ELSE [ lastCall EXCEPT !.stage = lastCall.next,
                                          !.at_request =
                                              IF lastCall.next = "body"
                                              THEN ClientState(conn) ELSE @ ]
    /\ conn' = Forget(conn)
    /\ UNCHANGED clientRest

\* What the SEARCH request can do: answer OK with ids, OK with none, answer with
\* another status, raise IMAP4.error, raise something else (OSError).
SearchOutcomes2 == { "list", "none", "status_not_ok", "imap_error", "socket_error" }

\* search_unseen(), lines 210-228.
\*   status != 'OK'  -> return []            (no connect())
\*   not messages[0] -> return []
\*   IMAP4.error     -> self.connect(); return []
\*   anything else is not caught.
SearchUnseenBody ==
    /\ ~ ClientIdle
    /\ lastCall.op = "search_unseen" /\ lastCall.stage = "body"
    /\ \E o \in SearchOutcomes2 :
          LET f == [ lastCall EXCEPT !.event = o ]
          IN  CASE o = "list" ->
                     /\ lastCall' = [ f EXCEPT !.stage = "done", !.result = "list" ]
                     /\ UNCHANGED conn
                [] o \in { "none", "status_not_ok" } ->
                     /\ lastCall' = [ f EXCEPT !.stage = "done", !.result = "empty" ]
                     /\ UNCHANGED conn
                [] o = "imap_error" ->
                     /\ lastCall' = [ f EXCEPT !.stage = "connecting", !.next = "done",
                                               !.onraise = "done", !.result = "empty",
                                               !.reconnect = TRUE ]
                     /\ conn' = connect_called(conn)
                [] o = "socket_error" ->
                     /\ lastCall' = [ f EXCEPT !.stage = "done", !.raised = "OSError" ]
                     /\ UNCHANGED conn
    /\ UNCHANGED clientRest

\* What the FETCH request and the parsing of its answer can do.
FetchOutcomes == { "message", "not_found", "imap_error", "other_error" }

\* A fetch that lets the server's refusal out as an exception.
fetch_by_uid_raising(o) ==
    IF o = "message" THEN [ result |-> "message", raised |-> "none" ]
    ELSE IF o = "not_found" THEN [ result |-> "none", raised |-> "IMAP4.error" ]
    ELSE [ result |-> "None", raised |-> "none" ]

\* fetch_by_uid(), lines 242-287: the message, or None when the status is not OK
\* or the data is empty ("not_found"), on IMAP4.error, and on any other exception.
fetch_by_uid(o) ==
    IF o = "message" THEN [ result |-> "message", raised |-> "none" ]
    ELSE [ result |-> "None", raised |-> "none" ]

FetchByUidBody ==
    /\ ~ ClientIdle
    /\ lastCall.op = "fetch_by_uid" /\ lastCall.stage = "body"
    /\ \E o \in FetchOutcomes :
          lastCall' = [ lastCall EXCEPT !.event = o, !.stage = "done",
                                        !.result = fetch_by_uid(o).result,
                                        !.raised = fetch_by_uid(o).raised ]
    /\ UNCHANGED conn
    /\ UNCHANGED clientRest

\* close(), lines 534-551.  idle_done() only when _is_idle; close() and logout()
\* only with a session: IMAP4.error and AttributeError are swallowed, `finally`
\* drops the session, any other exception (OSError) goes on to the caller.
CloseBody ==
    /\ ~ ClientIdle
    /\ lastCall.op = "close" /\ lastCall.stage = "body"
    /\ \E o1, o2 \in NetOutcomes :
          LET idle_raised == conn.is_idle /\ o1 = "socket_error"
              quit_raised == ~ idle_raised /\ conn.session # "none" /\ o2 = "socket_error"
          IN  /\ conn' = IF idle_raised THEN conn
                         ELSE [ conn EXCEPT !.is_idle = FALSE, !.session = "none" ]
              /\ lastCall' = [ lastCall EXCEPT
                                 !.stage = "done",
                                 !.event = IF conn.is_idle /\ o1 # "ok" THEN o1
                                           ELSE IF conn.session # "none" THEN o2
                                           ELSE "none",
                                 !.raised = IF idle_raised \/ quit_raised
                                            THEN "OSError" ELSE "none" ]
    /\ UNCHANGED clientRest

\* idle_wait(), lines 327-332: self._is_idle = True, then, inside try/finally,
\* self.connection.idle(); an exception of idle() is caught by nothing.
IdleStart ==
    /\ ~ ClientIdle
    /\ lastCall.op = "idle_wait" /\ lastCall.stage = "body"
    /\ conn' = [ conn EXCEPT !.is_idle = TRUE ]
    /\ \E o \in NetOutcomes :
          lastCall' = IF o = "ok"
                      THEN [ lastCall EXCEPT !.stage = "wait" ]
                      ELSE [ lastCall EXCEPT !.stage = "finally",
                                             !.raised = IF o = "imap_error"
                                                        THEN "IMAP4.abort" ELSE "OSError",
                                             !.event = "abort_at_start" ]
    /\ UNCHANGED clientRest

\* idle_wait(), lines 338-347: the loop test, then self.connection.wait(timeout=10).
\* IMAP4.abort: _is_idle = False, self.connect(), continue.  Other exceptions are
\* not caught.  When the time is up the loop ends and new_emails ([]) is returned.
IdleWaitTurn ==
    /\ ~ ClientIdle
    /\ lastCall.op = "idle_wait" /\ lastCall.stage = "wait"
    /\ IF lastCall.waits >= MaxWaits
       THEN /\ lastCall' = [ lastCall EXCEPT !.stage = "finally", !.result = "empty" ]
            /\ UNCHANGED conn
       ELSE \E o \in { "ok", "abort", "socket_error" } :
              LET f == [ lastCall EXCEPT !.waits = @ + 1 ]
              IN  CASE o = "ok" ->
                         /\ lastCall' = [ f EXCEPT !.stage = "fetch" ]
                         /\ UNCHANGED conn
                    [] o = "abort" ->
                         /\ lastCall' = [ f EXCEPT !.stage = "connecting",
                                                   !.next = "wait",
                                                   !.onraise = "finally",
                                                   !.event = "abort",
                                                   !.reconnect = TRUE ]
                         /\ conn' = connect_called([ conn EXCEPT !.is_idle = FALSE ])
                    [] o = "socket_error" ->
                         /\ lastCall' = [ f EXCEPT !.stage = "finally",
                                                   !.raised = "OSError" ]
                         /\ UNCHANGED conn
    /\ UNCHANGED clientRest

\* idle_wait(), lines 341-344: new_emails = self.fetch_new_emails(); a non-empty
\* list ends the loop.  fetch_new_emails swallows the errors of its requests; the
\* one exception it lets out here is IMAPConnectionError from a failed reconnect.
IdleFetch ==
    /\ ~ ClientIdle
    /\ lastCall.op = "idle_wait" /\ lastCall.stage = "fetch"
    /\ \E o \in { "list", "empty", "connection_error" } :
          lastCall' = CASE o = "list" ->
                             [ lastCall EXCEPT !.stage = "finally", !.result = "list" ]
                        [] o = "empty" -> [ lastCall EXCEPT !.stage = "wait" ]
                        [] o = "connection_error" ->
                             [ lastCall EXCEPT !.stage = "finally",
                                               !.raised = "IMAPConnectionError" ]
    /\ UNCHANGED conn
    /\ UNCHANGED clientRest

\* idle_wait(), lines 361-368: finally: _is_idle = False and idle_done(), whose
\* IMAP4.error or AttributeError is swallowed; another exception replaces the
\* return value or the exception on its way out.
IdleFinally ==
    /\ ~ ClientIdle
    /\ lastCall.op = "idle_wait" /\ lastCall.stage = "finally"
    /\ conn' = [ conn EXCEPT !.is_idle = FALSE ]
    /\ \E o \in NetOutcomes :
          lastCall' = IF o = "socket_error" /\ conn.session # "none"
                      THEN [ lastCall EXCEPT !.stage = "done", !.raised = "OSError",
                                             !.result = "none" ]
                      ELSE [ lastCall EXCEPT
                               !.stage = "done",
                               !.result = IF lastCall.raised = "none" THEN @ ELSE "none" ]
    /\ UNCHANGED clientRest

\* The steps of a connect() that an operation called.
ClientConnectEntry == ~ ClientIdle /\ ConnectEntry
ClientConnectOpen == ~ ClientIdle /\ ConnectOpen
ClientConnectLogin == ~ ClientIdle /\ ConnectLogin
ClientConnectSelectProbe == ~ ClientIdle /\ ConnectSelectProbe
ClientConnectSelect == ~ ClientIdle /\ ConnectSelect

NextClient ==
    \/ ClientCall
    \/ ClientEnsure
    \/ ClientConnected
    \/ SearchUnseenBody
    \/ FetchByUidBody
    \/ CloseBody
    \/ IdleStart
    \/ IdleWaitTurn
    \/ IdleFetch
    \/ IdleFinally
    \/ ClientConnectEntry
    \/ ClientConnectOpen
    \/ ClientConnectLogin
    \/ ClientConnectSelectProbe
    \/ ClientConnectSelect

SpecClient == Init /\ [][NextClient]_vars

(***************************************************************************)
(* SpecGuard: the five operations of the client that talk to the server    *)
(* after ensure_connected(): select_folder, search_unseen, fetch_by_uid,   *)
(* idle_wait, mark_as_seen; frames as in SpecClient.                       *)
(***************************************************************************)
GuardedOps == { "select_folder", "search_unseen", "fetch_by_uid", "idle_wait",
                "mark_as_seen" }

GuardedCall ==
    /\ ClientIdle
    /\ conn.pc = "idle"
    /\ CallsSoFar < MaxClientCalls
    /\ \E op \in GuardedOps :
          lastCall' = [ op |-> op, stage |-> "ensure",
                        next |-> "body", onraise |-> "done", result |-> "none",
                        raised |-> "none", event |-> "none", reconnect |-> FALSE,
                        ensured |-> "none",
                        at_call |-> ClientState(conn),
                        at_request |-> ClientState(conn), waits |-> 0,
                        n |-> CallsSoFar + 1 ]
    /\ conn' = Forget(conn)
    /\ UNCHANGED clientRest

\* select_folder(), lines 192-199: self.connection.select(folder); IMAP4.error is
\* logged and raised again, anything else is not caught.
SelectFolderBody ==
    /\ ~ ClientIdle
    /\ lastCall.op = "select_folder" /\ lastCall.stage = "body"
    /\ \E o \in NetOutcomes :
          lastCall' = [ lastCall EXCEPT
                          !.event = o, !.stage = "done",
                          !.result = IF o = "ok" THEN "None" ELSE "none",
                          !.raised = CASE o = "ok" -> "none"
                                       [] o = "imap_error" -> "IMAP4.error"
                                       [] OTHER -> "OSError" ]
    /\ UNCHANGED conn
    /\ UNCHANGED clientRest

\* mark_as_seen(), lines 381-387: self.connection.store(uid, '+FLAGS', '\\Seen');
\* True, or False on IMAP4.error; anything else is not caught.
MarkAsSeenBody ==
    /\ ~ ClientIdle
    /\ lastCall.op = "mark_as_seen" /\ lastCall.stage = "body"
    /\ \E o \in NetOutcomes :
          lastCall' = [ lastCall EXCEPT
                          !.event = o, !.stage = "done",
                          !.result = CASE o = "ok" -> "True"
                                       [] o = "imap_error" -> "False"
                                       [] OTHER -> "none",
                          !.raised = IF o = "socket_error" THEN "OSError" ELSE "none" ]
    /\ UNCHANGED conn
    /\ UNCHANGED clientRest

NextGuard ==
    \/ GuardedCall
    \/ ClientEnsure
    \/ ClientConnected
    \/ SelectFolderBody
    \/ SearchUnseenBody
    \/ FetchByUidBody
    \/ MarkAsSeenBody
    \/ IdleStart
    \/ IdleWaitTurn
    \/ IdleFetch
    \/ IdleFinally
    \/ ClientConnectEntry
    \/ ClientConnectOpen
    \/ ClientConnectLogin
    \/ ClientConnectSelectProbe
    \/ ClientConnectSelect

SpecGuard == Init /\ [][NextGuard]_vars

(***************************************************************************)
(* SpecLookup: create_or_update_contact's lookup, called with any valid    *)
(* lead and any answers of the CRM to the three searches.                  *)
(***************************************************************************)

\* A lookup that asks for the phone number before the e-mail address.
find_existing_tiers_phone_first(l, o1, o2, o3) ==
    LET hit2 == l.phone /\ o2 = "hit"
        ask1 == ~ hit2 /\ l.email
        hit1 == ask1 /\ o1 = "hit"
        ask3 == ~ hit1 /\ ~ hit2 /\ l.name_date
    IN  (IF l.phone THEN << "phone" >> ELSE << >>)
           \o (IF ask1 THEN << "email" >> ELSE << >>)
           \o (IF ask3 THEN << "name_date" >> ELSE << >>)

\* find_existing_contact, lines 224-261: the searches it sends, in the order it
\* sends them.  Each `return contact` ends the function; an exception or an
\* answer without a usable contact leads on to the next `if`.
find_existing_tiers(l, o1, o2, o3) ==
    LET hit1 == l.email /\ o1 = "hit"
        ask2 == ~ hit1 /\ l.phone
        hit2 == ask2 /\ o2 = "hit"
        ask3 == ~ hit1 /\ ~ hit2 /\ l.name_date
    IN  (IF l.email THEN << "email" >> ELSE << >>)
           \o (IF ask2 THEN << "phone" >> ELSE << >>)
           \o (IF ask3 THEN << "name_date" >> ELSE << >>)

\* The leads process_email hands to create_or_update_contact: lead.is_valid() holds.
ValidLeads ==
    { l \in [ tag : { "lead" }, email : BOOLEAN, phone : BOOLEAN, name_date : BOOLEAN,
              source_platform : { None }, extraction_method : { "regex" } ] :
        is_valid(l) }

\* create_or_update_contact, lines 362-366: existing = find_existing_contact(lead),
\* then `if existing:` update, `else:` create.
LookupCall ==
    /\ \E l \in ValidLeads, o1 \in SearchOutcomes, o2 \in SearchOutcomes,
          o3 \in SearchOutcomes :
          LET f == find_existing_contact(l, o1, o2, o3)
          IN  /\ lead' = l
              /\ lastCall' = [ op |-> "create_or_update_contact",
                               answers |-> [ email |-> o1, phone |-> o2,
                                             name_date |-> o3 ],
                               tiers |-> find_existing_tiers(l, o1, o2, o3),
                               found |-> f.found,
                               branch |-> IF f.found THEN "update" ELSE "create" ]
    /\ UNCHANGED << ledger, now, everMarked, swept >>
    /\ UNCHANGED << pc, running, metrics, emails, idx, existing, result, use_ai,
                    run_calls, run_failed, run_counted, effects, lastResult,
                    prevDelivered, interrupted, pending, crashes, cycles, conn >>

NextLookup == LookupCall

SpecLookup == Init /\ [][NextLookup]_vars

(***************************************************************************)
(* SpecClassify: detect_platform called with any body text and headers.    *)
(***************************************************************************)

\* Header dicts whose values name any platforms, under either spelling of the names.
AnyHeaderDicts ==
    { [ From |-> f, Subject |-> sj ] : f \in SUBSET Platforms, sj \in { {}, { "Zola" } } }
        \cup { [ from |-> f, subject |-> sj ] :
                 f \in SUBSET Platforms, sj \in { {}, { "Zola" } } }

\* detect_platform(email_text, headers): lastCall holds the call and its result.
ClassifyCall ==
    /\ \E email_text \in SUBSET Platforms, headers \in AnyHeaderDicts :
          lastCall' = [ op |-> "detect_platform", email_text |-> email_text,
                        headers |-> headers,
                        platform |-> detect_platform(email_text, headers) ]
    /\ UNCHANGED << ledger, now, everMarked, swept >>
    /\ UNCHANGED daemonVars

NextClassify == ClassifyCall

SpecClassify == Init /\ [][NextClassify]_vars

(***************************************************************************)
(* SpecDate: LeadData.__post_init__ normalising a wedding date.            *)
(***************************************************************************)

\* A date string, by the pattern of _normalize_date it has the shape of and the
\* numbers its digit groups spell:
\*   "iso"    ^\d{4}-\d{2}-\d{2}$
\*   "slash"  ^(\d{1,2})/(\d{1,2})/(\d{4})$
\*   "named"  ^([A-Za-z]+)\s+(\d{1,2}),?\s*(\d{4})$; month is the number month_map
\*            gives the word, 0 for a word that is not in month_map
\*   "other"  none of them
\* A group of one or two digits spells any number from 0 to 99.
DateYears == { 2024, 2025 }
DateMonths == { 0, 1, 2, 12, 13 }
DateDays == { 0, 1, 28, 29, 30, 31, 32 }

DateStrings ==
    [ form : { "iso", "slash", "named", "other" }, year : DateYears,
      month : DateMonths, day : DateDays ]

\* Python's None as a wedding date.
NoDate == [ tag |-> "none" ]

\* _normalize_date, lines 90-124.  The result is the text YYYY-MM-DD built from the
\* digit groups (zfill(2) and :02d pad to two digits), given here by its numbers.
\*   iso:   the string itself
\*   slash: f"{year}-{month.zfill(2)}-{day.zfill(2)}"
\*   named: f"{year}-{month_num:02d}-{int(day):02d}" when month_map knows the word
\*   else:  None
normalize_date(t) ==
    LET text == [ tag |-> "text", year |-> t.year, month |-> t.month, day |-> t.day ]
    IN  CASE t.form = "iso" -> text
          [] t.form = "slash" -> text
          [] t.form = "named" /\ t.month \in 1 .. 12 -> text
          [] OTHER -> NoDate

\* LeadData(wedding_date = t): __post_init__ stores _normalize_date(t).
NormalizeDateCall ==
    /\ \E t \in DateStrings :
          lastCall' = [ op |-> "_normalize_date", date_str |-> t,
                        wedding_date |-> normalize_date(t) ]
    /\ UNCHANGED << ledger, now, everMarked, swept >>
    /\ UNCHANGED daemonVars

NextDate == NormalizeDateCall

SpecDate == Init /\ [][NextDate]_vars

(***************************************************************************)
(* LeadData._normalize_phone (lead_data.py 65-76).  A phone string is a    *)
(* sequence of characters; PhoneChars holds two digits, so that order is   *)
(* observable, and one separator.                                          *)
(***************************************************************************)
MaxPhoneLen == 11

PhoneChars == { "5", "1", "-" }

IsDigit(c) == c \in { "0", "1", "2", "3", "4", "5", "6", "7", "8", "9" }

NoPhone == [ tag |-> "none" ]

\* re.sub(r'[^\d]', '', phone): drop every character that is not a digit.
RECURSIVE re_sub_non_digits(_)
re_sub_non_digits(s) ==
    IF s = << >> THEN << >>
    ELSE ( IF IsDigit(Head(s)) THEN << Head(s) >> ELSE << >> )
            \o re_sub_non_digits(Tail(s))

\* digits[-10:]
LastTen(digits) ==
    IF Len(digits) <= 10 THEN digits
    ELSE SubSeq(digits, Len(digits) - 9, Len(digits))

normalize_phone_last_ten(phone) ==
    IF phone = << >> THEN NoPhone
    ELSE LET digits == re_sub_non_digits(phone)
         IN  IF Len(digits) >= 10
             THEN [ tag |-> "text", chars |-> LastTen(digits) ]
             ELSE NoPhone

normalize_phone(phone) ==
    IF phone = << >> THEN NoPhone
    ELSE LET digits == re_sub_non_digits(phone)
         IN  IF Len(digits) >= 10
             THEN [ tag |-> "text",
                    chars |-> IF Len(digits) = 10 THEN LastTen(digits) ELSE digits ]
             ELSE NoPhone

\* One call of _normalize_phone.  The argument strings are enumerated by
\* extension: each call takes the previous argument with one more character.
NormalizePhoneCall ==
    /\ \E c \in PhoneChars :
          LET prev  == IF lastCall.op = "_normalize_phone"
                       THEN lastCall.phone ELSE << >>
              phone == Append(prev, c)
          IN  /\ Len(prev) < MaxPhoneLen
              /\ lastCall' = [ op |-> "_normalize_phone", phone |-> phone,
                               result |-> normalize_phone(phone) ]
    /\ UNCHANGED << ledger, now, everMarked, swept >>
    /\ UNCHANGED daemonVars

\* The empty string is an argument too.
NormalizePhoneEmpty ==
    /\ lastCall.op = "none"
    /\ lastCall' = [ op |-> "_normalize_phone", phone |-> << >>,
                     result |-> normalize_phone(<< >>) ]
    /\ UNCHANGED << ledger, now, everMarked, swept >>
    /\ UNCHANGED daemonVars

NextPhone == NormalizePhoneCall \/ NormalizePhoneEmpty

SpecPhone == Init /\ [][NextPhone]_vars

(***************************************************************************)
(* LeadData construction and validity (lead_data.py 27-51, 53-63,          *)
(* 142-157).  An optional string is NoEmail / NoPhone (None) or a text     *)
(* record holding its characters.                                          *)
(***************************************************************************)
NoEmail == [ tag |-> "none" ]

Text(chars) == [ tag |-> "text", chars |-> chars ]

\* bool(v) of an optional string: None and "" are falsy.
Truthy(v) == IF v.tag = "text" THEN v.chars # << >> ELSE FALSE

LowerLetters ==
    { "a", "b", "c", "d", "e", "f", "g", "h", "i", "j", "k", "l", "m",
      "n", "o", "p", "q", "r", "s", "t", "u", "v", "w", "x", "y", "z" }

\* str.lower() on the upper-case letters of the argument strings below
Lower(c) ==
    CASE c = "A" -> "a" [] c = "B" -> "b" [] c = "C" -> "c" [] c = "O" -> "o"
      [] OTHER -> c

RECURSIVE strip(_)
strip(s) ==
    IF s = << >> THEN s
    ELSE IF Head(s) = " " THEN strip(Tail(s))
    ELSE IF s[Len(s)] = " " THEN strip(SubSeq(s, 1, Len(s) - 1))
    ELSE s

\* re.match(r'^[a-z0-9._%+-]+@[a-z0-9.-]+\.[a-z]{2,}$', email)
re_match_email(s) ==
    \E i, j \in 1..Len(s) :
        /\ s[i] = "@" /\ s[j] = "."
        /\ 1 < i /\ i + 1 < j /\ j + 2 <= Len(s)
        /\ \A k \in 1..(i - 1) :
              s[k] \in LowerLetters \/ IsDigit(s[k]) \/ s[k] \in { ".", "_", "%", "+", "-" }
        /\ \A k \in (i + 1)..(j - 1) :
              s[k] \in LowerLetters \/ IsDigit(s[k]) \/ s[k] \in { ".", "-" }
        /\ \A k \in (j + 1)..Len(s) : s[k] \in LowerLetters

normalize_email(email) ==
    IF email = << >> THEN NoEmail
    ELSE LET e == [ k \in 1..Len(strip(email)) |-> Lower(strip(email)[k]) ]
         IN  IF re_match_email(e) THEN Text(e) ELSE NoEmail

post_init_unnormalized(l) == l

post_init(l) ==
    [ l EXCEPT !.email = IF Truthy(@) THEN normalize_email(@.chars) ELSE @,
               !.phone = IF Truthy(@) THEN normalize_phone(@.chars) ELSE @ ]

LeadData_is_valid(l) == Truthy(l.email) \/ Truthy(l.phone)

RawEmails ==
    { NoEmail, Text(<< >>),
      Text(<< "a", "@", "b", ".", "c", "o" >>),
      Text(<< " ", "A", "@", "B", ".", "C", "O", " " >>),
      Text(<< "a", "@", "b" >>),
      Text(<< "a", "@", "b", ".", "c" >>),
      Text(<< "a", "b", ".", "c", "o" >>),
      Text(<< "a", " ", "b", "@", "b", ".", "c", "o" >>) }

RawPhones ==
    { NoPhone, Text(<< >>),
      Text(<< "5", "5", "5", "-", "1", "5", "1", "5" >>),
      Text(<< "(", "5", "5", "5", ")", " ", "1", "1", "5", "-", "5", "5", "1", "1" >>),
      Text(<< "1", "5", "5", "5", "1", "1", "5", "5", "5", "1", "1" >>),
      Text(<< "-", "-", "-" >>) }

\* LeadData(name=..., email=..., phone=..., location=...) followed by is_valid()
LeadDataCall ==
    /\ \E email \in RawEmails, phone \in RawPhones, name, location \in BOOLEAN :
          LET raw == [ email |-> email, phone |-> phone, name |-> name,
                       location |-> location ]
          IN  lastCall' = [ op |-> "LeadData", raw |-> raw, lead |-> post_init(raw),
                            valid |-> LeadData_is_valid(post_init(raw)) ]
    /\ UNCHANGED << ledger, now, everMarked, swept >>
    /\ UNCHANGED daemonVars

NextLead == LeadDataCall

SpecLead == Init /\ [][NextLead]_vars

(***************************************************************************)
(* Several callers of mark_processed for one uid (email_processor.py       *)
(* 102-118).  Each call opens its own connection (line 112), executes the  *)
(* INSERT OR REPLACE, which starts a write transaction, and commits (line  *)
(* 118).  SQLite admits one write transaction on the database file at a    *)
(* time: a connection that finds the file locked waits in its busy handler *)
(* (sqlite3.connect's default timeout) until the holder has committed.     *)
(* lastCall holds the calls: pc, args and at per writer, and lock, the     *)
(* writer whose transaction is open (0 when there is none).                *)
(***************************************************************************)
NumWriters == 3

Writers == 1 .. NumWriters

\* The arguments of writer w's call: the callers pass different vectors.
WriterArgs(w) ==
    CHOOSE a \in MarkArgs :
        a.email_from = ( CASE w % 3 = 1 -> "sender_a" [] w % 3 = 2 -> "sender_b"
                           [] OTHER -> None )

WritersBegin ==
    /\ lastCall.op = "none"
    /\ \E uid \in Uids :
          lastCall' = [ op |-> "writers", uid |-> uid,
                        pc |-> [ w \in Writers |-> "call" ],
                        args |-> [ w \in Writers |-> WriterArgs(w) ],
                        at |-> [ w \in Writers |-> 0 ],
                        lock |-> 0, committed |-> << >> ]
    /\ UNCHANGED << ledger, now, everMarked, swept >>
    /\ UNCHANGED daemonVars

\* mark_processed(uid, ...) is entered: with sqlite3.connect(self.db_path) as conn,
\* and the parameter tuple of the statement, with its timestamp, is built.
WriterConnect ==
    /\ lastCall.op = "writers"
    /\ \E w \in Writers :
          /\ lastCall.pc[w] = "call"
          /\ lastCall' = [ lastCall EXCEPT !.pc[w] = "connected", !.at[w] = now ]
    /\ UNCHANGED << ledger, now, everMarked, swept >>
    /\ UNCHANGED daemonVars

\* conn.execute(INSERT OR REPLACE ...): the write transaction opens once no
\* other connection holds one.
WriterExecute ==
    /\ lastCall.op = "writers"
    /\ \E w \in Writers :
          /\ lastCall.pc[w] = "connected"
          /\ lastCall.lock = 0
          /\ lastCall' = [ lastCall EXCEPT !.pc[w] = "executed", !.lock = w ]
    /\ UNCHANGED << ledger, now, everMarked, swept >>
    /\ UNCHANGED daemonVars

\* conn.commit(): the row becomes visible to every connection, the lock is released.
WriterCommit ==
    /\ lastCall.op = "writers"
    /\ \E w \in Writers :
          /\ lastCall.pc[w] = "executed"
          /\ ledger' = mark_processed(ledger, lastCall.uid, lastCall.at[w],
                           lastCall.args[w].email_from, lastCall.args[w].subject,
                           lastCall.args[w].contact_id, lastCall.args[w].platform,
                           lastCall.args[w].status)
          /\ lastCall' = [ lastCall EXCEPT !.pc[w] = "done", !.lock = 0,
                                           !.committed = Append(@, w) ]
    /\ UNCHANGED << now, everMarked, swept >>
    /\ UNCHANGED daemonVars

NextWriters == WritersBegin \/ WriterConnect \/ WriterExecute \/ WriterCommit \/ Tick

SpecWriters == Init /\ [][NextWriters]_vars

(***************************************************************************)
(* EmailExtractor.extract_with_regex over the pattern tables               *)
(* (email_extractor.py 56-124, 310-342).  A pattern is named by its table, *)
(* its field and its position in the field's list; a text is modelled by   *)
(* the set of patterns of the applied table that re.search finds in it,    *)
(* and the value a pattern captures is named after the pattern.            *)
(***************************************************************************)
MaxMatches == 3

\* REGEX_PATTERNS: per platform and field, the number of alternatives listed.
REGEX_PATTERNS ==
    [ WeddingWire |-> [ name |-> 2, email |-> 1, phone |-> 1, wedding_date |-> 2,
                        location |-> 1, message |-> 1 ],
      TheKnot |-> [ name |-> 1, email |-> 1, phone |-> 1, wedding_date |-> 1,
                    location |-> 1 ],
      Zola |-> [ name |-> 2, email |-> 2, phone |-> 2, wedding_date |-> 2,
                 location |-> 1, message |-> 1 ],
      StyleMePretty |-> [ name |-> 1, email |-> 1, phone |-> 1 ] ]

\* REGEX_PATTERNS.get(platform, REGEX_PATTERNS.get('WeddingWire', {})): the
\* name of the table that is applied.
PatternTable(platform) ==
    IF platform \in DOMAIN REGEX_PATTERNS THEN platform ELSE "WeddingWire"

\* The patterns of table t.
PatternsOf(t) ==
    UNION { { << t, f, i >> : i \in 1 .. REGEX_PATTERNS[t][f] } :
              f \in DOMAIN REGEX_PATTERNS[t] }

\* An extraction that lets a later alternative overwrite an earlier one.
regex_fields_last_match(matches, platform) ==
    LET t == PatternTable(platform)
        found == { f \in DOMAIN REGEX_PATTERNS[t] :
                     \E i \in 1 .. REGEX_PATTERNS[t][f] : << t, f, i >> \in matches }
    IN  [ f \in found \cup { "source_platform" } |->
            IF f = "source_platform" THEN platform
            ELSE << t, f, CHOOSE i \in 1 .. REGEX_PATTERNS[t][f] :
                            /\ << t, f, i >> \in matches
                            /\ \A j \in 1 .. REGEX_PATTERNS[t][f] :
                                  << t, f, j >> \in matches => j <= i >> ]

\* extract_with_regex: for each field of the table the alternatives are tried
\* in list order and the loop breaks at the first match; source_platform is
\* set last.
regex_fields(matches, platform) ==
    LET t == PatternTable(platform)
        found == { f \in DOMAIN REGEX_PATTERNS[t] :
                     \E i \in 1 .. REGEX_PATTERNS[t][f] : << t, f, i >> \in matches }
    IN  [ f \in found \cup { "source_platform" } |->
            IF f = "source_platform" THEN platform
            ELSE << t, f, CHOOSE i \in 1 .. REGEX_PATTERNS[t][f] :
                            /\ << t, f, i >> \in matches
                            /\ \A j \in 1 .. REGEX_PATTERNS[t][f] :
                                  << t, f, j >> \in matches => i <= j >> ]

\* The platform names a caller passes: the four of the tables and one more.
PlatformArgs == Platforms \cup { "Eventective" }

RegexCall ==
    /\ \E platform \in PlatformArgs :
       \E matches \in SUBSET PatternsOf(PatternTable(platform)) :
          /\ Cardinality(matches) <= MaxMatches
          /\ lastCall' = [ op |-> "extract_with_regex", platform |-> platform,
                           matches |-> matches,
                           extracted |-> regex_fields(matches, platform) ]
    /\ UNCHANGED << ledger, now, everMarked, swept >>
    /\ UNCHANGED daemonVars

NextRegex == RegexCall

SpecRegex == Init /\ [][NextRegex]_vars

(***************************************************************************)
(* The daemon with a maintenance caller: cleanup_old_records has no caller *)
(* in the daemon itself, so it is run from outside, at any moment, on the  *)
(* table the daemon reads and writes, while the clock advances.  No signal *)
(* arrives, so the loop of run() is not left.                              *)
(***************************************************************************)
NextSweep ==
    \/ InitialConnect
    \/ FetchNewEmails
    \/ ForDone
    \/ ProcessEmailBegin
    \/ Extract
    \/ ExtractionFailed
    \/ FindExisting
    \/ UpdateContact
    \/ UpdateOpportunity
    \/ CreateContact
    \/ CreateOpportunity
    \/ MarkProcessed
    \/ Sleep
    \/ TrackerCleanup
    \/ Tick

SpecSweep == Init /\ [][NextSweep]_vars

(***************************************************************************)
(* Properties of the daemon loop (checked under Spec).                     *)
(***************************************************************************)

\* C16 as stated: run() is only ever left after a shutdown signal: whenever the
\* daemon has exited, the shutdown flag had been set (_running is False).
C16_ExitOnlyAfterSignal == pc = "exited" => ~running

\* C17: when check_new_emails catches IMAPConnectionError, the cycle ends with no
\* message handed to process_email and with the ledger and the five counters as
\* they were; the daemon then sleeps, comes back to the loop test, and the next
\* step of a daemon that was not told to stop is a new cycle, whose
\* fetch_new_emails connects again before anything else.
C17_ConnectionErrorSkipsCycle ==
    [][ /\ (pc = "loop" /\ lastResult'.status = "connection_error") =>
              /\ pc' = "sleep" /\ emails' = << >>
              /\ ledger' = ledger /\ metrics' = metrics /\ effects' = effects
              /\ run_calls' = ZeroCalls
        /\ Leaves("sleep") => pc' = "loop"
        /\ (Leaves("loop") /\ running) =>
              /\ cycles' = cycles + 1
              /\ pc' \in { "sleep", "for" } ]_vars

\* C17 witness: the first cycle ended on a connection error, nothing recorded or
\* counted, and the daemon is asleep before its second cycle.
C17_Witness ==
    /\ pc = "sleep"
    /\ lastResult.status = "connection_error"
    /\ cycles = 1 /\ running
    /\ ledger = {} /\ metrics = ZeroMetrics

\* Messages with a contact created or a pipeline record opened in the CRM and no
\* row in the ledger.
Orphans ==
    { u \in Uids : effects[u].created + effects[u].opened > 0 /\ RowsOf(ledger, u) = {} }

PosIn(l, u) == CHOOSE k \in 1 .. Len(l) : l[k] = u

\* The cycle is past its listing: it is fetching or processing messages.
InCycle == pc = "fetch" \/ pc = "for" \/ InProcessEmail

\* C19: in a poll cycle the fetched messages stand in the order of the listing
\* search_unseen returned; the list does not change while it is processed; every
\* change of the ledger, of the CRM and of a counter of processed messages is made
\* for the message at the loop position; the position moves one message at a time,
\* and every message before it has its ledger row.
C19_OneAtATimeInListingOrder ==
    /\ [](InCycle =>
            /\ \A i \in 1 .. Len(emails) :
                  \E k \in 1 .. Len(lastCall.message_ids) :
                      lastCall.message_ids[k] = emails[i]
            /\ \A i, j \in 1 .. Len(emails) :
                  i < j => PosIn(lastCall.message_ids, emails[i])
                              < PosIn(lastCall.message_ids, emails[j])
            /\ (pc # "fetch") =>
                  \A j \in 1 .. (idx - 1) : RowsOf(ledger, emails[j]) # {})
    /\ [][ /\ (ledger' # ledger \/ effects' # effects) =>
                /\ InProcessEmail
                /\ \A u \in Uids \ { cur } :
                      RowsOf(ledger', u) = RowsOf(ledger, u) /\ effects'[u] = effects[u]
          /\ ((pc = "for" \/ InProcessEmail) /\ pc' # "sleep") =>
                /\ emails' = emails
                /\ idx' \in { idx, idx + 1 }
                /\ (InProcessEmail /\ InProcessEmail') => idx' = idx ]_vars

\* C19 witness: the server listed 2 before 1, both were fetched, 2 has been
\* processed and recorded, and 1 is being processed with no ledger row yet.
C19_Witness ==
    /\ lastCall = [ op |-> "fetch_new_emails", message_ids |-> << 2, 1 >>, at |-> 3 ]
    /\ emails = << 2, 1 >>
    /\ idx = 2 /\ pc = "find"
    /\ RowsOf(ledger, 2) # {}
    /\ RowsOf(ledger, 1) = {}

\* C20 as stated: fetch_by_uid is issued only for an identifier that the ledger does
\* not hold as processed.
C20_LedgerCheckBeforeFetch ==
    [][ (pc = "fetch" /\ lastCall' # lastCall) =>
            ~ is_processed(ledger, lastCall.message_ids[lastCall.at]) ]_vars

(***************************************************************************)
(* Properties of the IMAP client's operations.                             *)
(***************************************************************************)

\* C24: when connect() is called and the liveness probe on the session at hand
\* succeeds, the call returns at once: the session is the one held before, no new
\* session was opened, nothing was slept, and no login or folder selection ran.
C24_LiveSessionIsNoOp ==
    [][ ( /\ conn.pc = "entry" /\ conn.stack = << 1 >>
          /\ conn.attempts = 0 /\ conn.failed = 0
          /\ conn'.probe = "alive" ) =>
            conn' = [ conn EXCEPT !.pc = "idle", !.stack = << >>,
                                  !.outcome = "returned", !.probe = "alive" ] ]_vars

\* C24 witness: a call of connect() on a logged-in session has returned after a
\* successful probe with no attempt and no sleep.
C24_Witness ==
    /\ conn.outcome = "returned" /\ conn.probe = "alive"
    /\ conn.session = "authed"
    /\ conn.attempts = 0 /\ conn.slept = 0

\* The operation op has ended.
Ended(op) == IF lastCall.op = op THEN lastCall.stage = "done" ELSE FALSE

\* C21 as stated: a search_unseen whose SEARCH failed (status not OK, or IMAP4.error)
\* has returned the empty list, raised nothing, and called connect().
C21_FailedSearchEmptyAndReconnect ==
    (Ended("search_unseen") /\ lastCall.event \in { "status_not_ok", "imap_error" }) =>
        /\ lastCall.raised = "none"
        /\ lastCall.result = "empty"
        /\ lastCall.reconnect

\* C22: a fetch_by_uid whose request found no message for the identifier returns
\* None and raises nothing, and the client's session and idle flag are what they
\* were when the request was issued; when the liveness test before the request
\* found the session alive they are what they were when fetch_by_uid was called.
C22_NotFoundIsNone ==
    (Ended("fetch_by_uid") /\ lastCall.event = "not_found") =>
        /\ lastCall.raised = "none"
        /\ lastCall.result = "None"
        /\ ClientState(conn) = lastCall.at_request
        /\ lastCall.ensured = "alive" => ClientState(conn) = lastCall.at_call

\* C22 witness: the second operation is a fetch on a logged-in session that the
\* probe found alive; the identifier was not found and None came back.
C22_Witness ==
    /\ Ended("fetch_by_uid") /\ lastCall.event = "not_found"
    /\ lastCall.result = "None"
    /\ lastCall.at_call.session = "authed"
    /\ lastCall.ensured = "alive"
    /\ conn.session = "authed"

\* C23 as stated: close() raises nothing whatever its requests did, and leaves
\* the client with no session and not in idle mode.
C23_CloseNeverRaises ==
    Ended("close") =>
        /\ lastCall.raised = "none"
        /\ conn.session = "none"
        /\ ~ conn.is_idle

\* C25 as stated: an idle_wait whose wait met a connection abort has returned the
\* empty list, raised nothing, and left the client out of idle mode.
C25_AbortDuringIdleIsAbsorbed ==
    (Ended("idle_wait") /\ lastCall.event = "abort") =>
        /\ lastCall.raised = "none"
        /\ lastCall.result = "empty"
        /\ ~ conn.is_idle

(***************************************************************************)
(* Properties of create_or_update_contact (checked under Spec).            *)
(***************************************************************************)

\* C26 as stated: a sales-pipeline record is opened for a message only in a run of
\* create_or_update_contact that created a new contact, never in one that found
\* and updated an existing contact.
C26_PipelineRecordOnlyOnCreate ==
    [][ \A u \in Uids :
          effects'[u].opened > effects[u].opened =>
              /\ pc = "create_opportunity"
              /\ ~ existing.found
              /\ run_calls.create = 1 /\ run_calls.update = 0 ]_vars

(***************************************************************************)
(* Properties of the contact lookup (checked under SpecLookup).            *)
(***************************************************************************)

\* The rank of a lookup tier.
TierRank(t) == CASE t = "email" -> 1 [] t = "phone" -> 2 [] t = "name_date" -> 3

\* The tiers the lead has the fields for.
Applicable(l) ==
    (IF l.email THEN { "email" } ELSE {}) \cup (IF l.phone THEN { "phone" } ELSE {})
        \cup (IF l.name_date THEN { "name_date" } ELSE {})

\* C27: the searches are sent in the order e-mail, phone, name+date, only for tiers
\* the lead has the fields for; a tier that yields a contact is the last one
\* asked and the contact is updated; the create branch is taken only when every
\* applicable tier was asked and none yielded a contact.
C27_LookupTiersInOrder ==
    lastCall.op = "create_or_update_contact" =>
        LET t == lastCall.tiers
            asked == { t[i] : i \in 1 .. Len(t) }
        IN  /\ \A i, j \in 1 .. Len(t) : i < j => TierRank(t[i]) < TierRank(t[j])
            /\ asked \subseteq Applicable(lead)
            /\ \A i \in 1 .. Len(t) :
                  lastCall.answers[t[i]] = "hit" =>
                      i = Len(t) /\ lastCall.branch = "update"
            /\ \A x \in Applicable(lead) \ asked :
                  \E i \in 1 .. Len(t) :
                      TierRank(t[i]) < TierRank(x) /\ lastCall.answers[t[i]] = "hit"
            /\ lastCall.branch = "create" =>
                  /\ asked = Applicable(lead)
                  /\ \A x \in asked : lastCall.answers[x] # "hit"
            /\ lastCall.branch = "update" => lastCall.found

\* C27 witness: a lead with all three fields; the e-mail search found nothing, the
\* phone search found a contact, the name+date search was not sent.
C27_Witness ==
    /\ lastCall.op = "create_or_update_contact"
    /\ lead.email /\ lead.phone /\ lead.name_date
    /\ lastCall.answers.email = "empty" /\ lastCall.answers.phone = "hit"
    /\ lastCall.tiers = << "email", "phone" >>
    /\ lastCall.branch = "update"

(***************************************************************************)
(* Properties of the classifier (checked under SpecExtract, SpecClassify). *)
(***************************************************************************)

\* The platforms named by the sender address or the subject of the headers,
\* however the message spells the header names.
SenderOrSubject(headers) ==
    UNION { headers[k] : k \in DOMAIN headers }

\* C28 as stated: with no model configured, a message whose body holds the contact
\* fields and whose only platform signature is in its sender address or subject
\* yields a valid pattern-extracted lead of that platform.
C28_HeaderSignatureClassifies ==
    ( /\ lastCall.op = "extract"
      /\ ~ use_ai
      /\ lastCall.body = "body_contact_unsigned"
      /\ SenderOrSubject(lastCall.headers) = { "WeddingWire" } ) =>
        /\ lead.tag = "lead"
        /\ is_valid(lead)
        /\ lead.extraction_method = "regex"
        /\ lead.source_platform = "WeddingWire"

\* The place of a platform in the table of the source.
TableRank(p) ==
    CASE p = "WeddingWire" -> 1 [] p = "TheKnot" -> 2 [] p = "Zola" -> 3
      [] p = "StyleMePretty" -> 4

\* C29: the result of detect_platform is a function of the text it is given (the
\* body and the header values it reads): none when no platform's patterns match
\* it, else the matching platform that comes first in the order WeddingWire,
\* TheKnot, Zola, StyleMePretty.
C29_FirstInTableOrderWins ==
    lastCall.op = "detect_platform" =>
        LET seen == lastCall.email_text \cup HeaderGet(lastCall.headers, "from")
                       \cup HeaderGet(lastCall.headers, "subject")
        IN  /\ (seen = {}) <=> (lastCall.platform = None)
            /\ seen # {} =>
                  /\ lastCall.platform \in seen
                  /\ \A q \in seen : TableRank(lastCall.platform) <= TableRank(q)

\* C29 witness: a body that matches patterns of StyleMePretty, Zola and TheKnot
\* is classified TheKnot.
C29_Witness ==
    /\ lastCall.op = "detect_platform"
    /\ lastCall.email_text = { "StyleMePretty", "Zola", "TheKnot" }
    /\ HeaderGet(lastCall.headers, "from") = {}
    /\ HeaderGet(lastCall.headers, "subject") = {}
    /\ lastCall.platform = "TheKnot"

(***************************************************************************)
(* Properties of LeadData (checked under SpecDate).                        *)
(***************************************************************************)

LeapYear(y) == (y % 4 = 0 /\ y % 100 # 0) \/ y % 400 = 0

DaysInMonth(m, y) ==
    IF m = 2 THEN (IF LeapYear(y) THEN 29 ELSE 28)
    ELSE IF m \in { 4, 6, 9, 11 } THEN 30 ELSE 31

\* C30 as stated: the wedding date a LeadData holds after normalisation is absent
\* or a date of the calendar: month 1..12 and a day that month has in that year.
C30_WeddingDateIsCalendarDate ==
    lastCall.op = "_normalize_date" =>
        \/ lastCall.wedding_date = NoDate
        \/ /\ lastCall.wedding_date.month \in 1 .. 12
           /\ lastCall.wedding_date.day \in
                 1 .. DaysInMonth(lastCall.wedding_date.month, lastCall.wedding_date.year)

DigitCount(p) == Cardinality({ i \in 1..Len(p) : IsDigit(p[i]) })

\* C31: phone normalization of a string containing d digits yields absent
\* when d < 10 and otherwise an all-digit string of exactly d digits, the
\* digits of the input in their input order.
C31_PhoneKeepsAllDigits ==
    lastCall.op = "_normalize_phone" =>
        LET p == lastCall.phone
            d == DigitCount(p)
            r == lastCall.result
        IN  /\ d < 10 => r = NoPhone
            /\ d >= 10 =>
                  /\ r # NoPhone
                  /\ Len(r.chars) = d
                  /\ \A i \in 1..Len(r.chars) : IsDigit(r.chars[i])
                  /\ r.chars = SelectSeq(p, IsDigit)

\* An eleven-digit argument, normalised to its eleven digits.
C31_Witness ==
    /\ lastCall.op = "_normalize_phone"
    /\ DigitCount(lastCall.phone) = 11
    /\ lastCall.result # NoPhone
    /\ \E i, j \in 1..11 : lastCall.phone[i] # lastCall.phone[j]

HasChar(v, c) == IF v.tag = "text" THEN \E i \in 1..Len(v.chars) : v.chars[i] = c ELSE FALSE

\* C32: a lead record is valid if and only if, after normalization, its
\* email is present or its phone is present; name and location do not
\* matter, and a raw email without a well-formed address or a raw phone
\* with fewer than ten digits counts as absent.
C32_ValidIffEmailOrPhone ==
    lastCall.op = "LeadData" =>
        LET l == lastCall.lead
            raw == lastCall.raw
        IN  /\ lastCall.valid <=> ( Truthy(l.email) \/ Truthy(l.phone) )
            /\ l.name = raw.name /\ l.location = raw.location
            /\ Truthy(l.email) =>
                  /\ ~ HasChar(l.email, " ")
                  /\ HasChar(raw.email, "@")
                  /\ \E d \in 1..Len(l.email.chars) :
                        /\ l.email.chars[d] = "."
                        /\ d + 2 <= Len(l.email.chars)
                        /\ \A k \in d..Len(l.email.chars) : l.email.chars[k] # "@"
            /\ Truthy(l.phone) => DigitCount(raw.phone.chars) >= 10
            /\ ~ Truthy(raw.email) => ~ Truthy(l.email)
            /\ ~ Truthy(raw.phone) => ~ Truthy(l.phone)

\* A record with a name, a malformed raw email and a seven-digit raw phone
\* is invalid.
C32_Witness ==
    /\ lastCall.op = "LeadData"
    /\ Truthy(lastCall.raw.email) /\ Truthy(lastCall.raw.phone)
    /\ lastCall.raw.name
    /\ ~ lastCall.valid

\* C33: one extract call invokes the generative model at most once, and only
\* when a model is configured; after a failed model call (error, timeout,
\* non-JSON or non-object answer) the next thing the same extract call does is
\* pattern extraction, or it returns none when no platform was detected, and
\* the record is not tagged 'ai'.
C33_ModelCalledAtMostOnce ==
    lastCall.op = "extract" =>
        LET calls == lastCall.calls
            model == { i \in 1 .. Len(calls) : calls[i] = "generate_content" }
        IN  /\ Cardinality(model) <= 1
            /\ use_ai <=> model # {}
            /\ \A i \in model :
                  /\ calls[i - 1] = "extract_with_ai"
                  /\ lastCall.ai \in ModelFailures =>
                        /\ \A j \in (i + 1) .. Len(calls) :
                              j = i + 1 /\ calls[j] = "extract_with_regex"
                        /\ IF Len(calls) = i
                           THEN lead = NoLead
                           ELSE lead.tag = "lead" /\ lead.extraction_method = "regex"

\* C33 witness: the model call timed out and the same extract call went on to
\* pattern extraction.
C33_Witness ==
    /\ lastCall.op = "extract"
    /\ lastCall.ai = "timeout"
    /\ lastCall.calls =
          << "detect_platform", "extract_with_ai", "generate_content", "extract_with_regex" >>
    /\ lead.extraction_method = "regex"

\* The row a writer's call of mark_processed carries.
RowOfWriter(w) ==
    Row(lastCall.uid, lastCall.at[w], lastCall.args[w].email_from,
        lastCall.args[w].subject, lastCall.args[w].contact_id,
        lastCall.args[w].platform, lastCall.args[w].status)

C35_FirstAlternativeAndPlatformStamp ==
    lastCall.op = "extract_with_regex" =>
        LET r == lastCall.extracted
            t == IF lastCall.platform \in Platforms THEN lastCall.platform
                 ELSE "WeddingWire"
            fields == DOMAIN r \ { "source_platform" }
        IN  /\ "source_platform" \in DOMAIN r
            /\ r["source_platform"] = lastCall.platform
            /\ fields = { m[2] : m \in lastCall.matches }
            /\ \A f \in fields :
                  /\ r[f] \in lastCall.matches
                  /\ r[f][1] = t /\ r[f][2] = f
                  /\ \A m \in lastCall.matches : m[2] = f => r[f][3] <= m[3]

\* C35 witness: for a platform without a table, a text in which both name
\* alternatives of the WeddingWire table match yields the first one's value.
C35_Witness ==
    /\ lastCall.op = "extract_with_regex"
    /\ lastCall.platform \notin Platforms
    /\ lastCall.matches = { << "WeddingWire", "name", 1 >>, << "WeddingWire", "name", 2 >> }
    /\ lastCall.extracted["name"] = << "WeddingWire", "name", 1 >>
    /\ lastCall.extracted["source_platform"] = lastCall.platform

\* The step taken is a call of cleanup_old_records.
CleanupCalled ==
    /\ lastCall'.op = "cleanup_old_records"
    /\ UNCHANGED daemonVars
    /\ now' = now
    /\ << ledger, lastCall >>' # << ledger, lastCall >>

\* C36: cleanup_old_records(days) removes exactly the entries whose
\* processed-at is before now minus days, returns their number and leaves
\* every other entry as it was; when the orchestrator is next handed a
\* message whose entry was removed (and not written again since), it does not
\* skip the message but processes it again.
C36_CleanupRemovesExactlyTheOld ==
    [][ /\ CleanupCalled =>
              /\ \E days \in RetentionDays : lastCall'.cutoff = now - days
              /\ ledger' \subseteq ledger
              /\ \A r \in ledger : r \in ledger' <=> ~(r.processed_at < lastCall'.cutoff)
              /\ lastCall'.deleted = Cardinality(ledger \ ledger')
              /\ \A r \in ledger \ ledger' : ~is_processed(ledger', r.uid)
        /\ (ProcessEmailCalled /\ daemonVars' # daemonVars /\ cur \in swept) =>
              /\ pc' = "extract"
              /\ idx' = idx ]_vars

\* C36 witness: a message that was recorded, then swept, is being processed
\* again while the entry of another message, recorded later, was kept.
C36_Witness ==
    /\ lastCall.op = "cleanup_old_records"
    /\ lastCall.deleted = 1
    /\ pc = "find"
    /\ cur \in swept /\ cur \in everMarked
    /\ \E r \in ledger : r.uid # cur

\* The operation in lastCall has issued a server command.
Requested ==
    \/ lastCall.event # "none"
    \/ lastCall.result # "none"
    \/ lastCall.waits > 0
    \/ lastCall.stage \in { "wait", "fetch", "finally" }

\* C37: every operation of the client (select_folder, search_unseen,
\* fetch_by_uid, idle_wait, mark_as_seen) runs the liveness probe before its
\* server command and, when the probe fails or there is no session, calls
\* connect() before the command.  The command is issued on the session that
\* passed the probe or on the session connect() returned; when connect()
\* raises, the operation ends with IMAPConnectionError and has issued no
\* command.
C37_ProbeThenReconnectBeforeCommand ==
    (IF lastCall.op = "none" THEN FALSE ELSE lastCall.op \in GuardedOps) =>
        /\ (lastCall.stage = "body" \/ Requested) =>
              /\ lastCall.ensured \in { "alive", "dead" }
              /\ lastCall.at_request.session # "none"
        /\ lastCall.stage = "body" => (conn.session # "none" /\ conn.pc = "idle")
        /\ lastCall.ensured = "alive" =>
              /\ lastCall.at_call.session # "none"
              /\ lastCall.at_request = lastCall.at_call
        /\ (lastCall.stage = "connecting" /\ ~ Requested) => lastCall.ensured = "dead"
        /\ (lastCall.stage = "done" /\ ~ Requested) =>
              /\ lastCall.ensured = "dead"
              /\ lastCall.raised = "IMAPConnectionError"
              /\ lastCall.result = "none"

\* C37 witness: mark_as_seen was called on a client holding a session, the
\* probe failed, connect() returned a session, and the STORE was issued on it.
C37_Witness ==
    /\ lastCall.op = "mark_as_seen"
    /\ lastCall.at_call.session = "authed"
    /\ lastCall.ensured = "dead"
    /\ lastCall.stage = "done"
    /\ lastCall.result = "True"

\* C38 as stated: at the end of a poll cycle that ran without a shutdown
\* signal and without IMAPConnectionError, every identifier search_unseen
\* listed in the cycle has a ledger entry.
C38_EveryListedIdRecorded ==
    ( /\ pc = "sleep"
      /\ running
      /\ lastCall.op = "fetch_new_emails"
      /\ lastResult.status # "connection_error" ) =>
        \A i \in 1 .. Len(lastCall.message_ids) :
            is_processed(ledger, lastCall.message_ids[i])

\* The three counters of which a message that reaches the CRM sync moves one.
SyncCounters == { "leads_created", "leads_updated", "ghl_failures" }

SyncCounted == metrics.leads_created + metrics.leads_updated + metrics.ghl_failures

\* C39: within one process every pipeline counter only grows; whenever no
\* message is in flight emails_processed = leads_created + leads_updated +
\* ghl_failures.  A message in the CRM sync has moved none of the three
\* counters before the create or update call and exactly one of them after
\* it, and emails_processed follows when the message is recorded; a message
\* that fails extraction moves extraction_failures only.
C39_CountersMonotoneAndBalanced ==
    /\ [][ /\ crashes' = crashes =>
                 \A k \in SyncCounters \cup { "emails_processed", "extraction_failures" } :
                     metrics'[k] >= metrics[k]
           /\ Leaves("extraction_failed") =>
                 metrics' = [ metrics EXCEPT !.extraction_failures = @ + 1 ]
           /\ (Leaves("update") \/ Leaves("create")) =>
                 /\ \E k \in SyncCounters : metrics' = [ metrics EXCEPT ![k] = @ + 1 ]
           /\ Leaves("mark") =>
                 metrics' = [ metrics EXCEPT !.emails_processed = @ + 1 ] ]_vars
    /\ [] ( /\ ~ InProcessEmail => metrics.emails_processed = SyncCounted
            /\ pc \in { "extract", "extraction_failed", "find", "update", "create" } =>
                  metrics.emails_processed = SyncCounted
            /\ pc \in { "update_opportunity", "create_opportunity", "mark" } =>
                  metrics.emails_processed + 1 = SyncCounted )

\* C39 witness: two messages went through the CRM sync, one counted as a
\* failure and one as created or updated, and none is in flight.
C39_Witness ==
    /\ ~ InProcessEmail
    /\ metrics.emails_processed = 2
    /\ metrics.ghl_failures = 1
    /\ metrics.leads_created + metrics.leads_updated = 1

\* C40: a model answer that parses to the empty JSON object is treated by
\* extract like a model failure: the call returns what it returns when the
\* model call raises, that is the pattern extraction tagged 'regex' when a
\* platform was detected and none otherwise; and a returned record is tagged
\* 'ai' exactly when its fields are those of a non-empty model result.
C40_EmptyObjectIsModelFailure ==
    lastCall.op = "extract" =>
        LET platform == detect_platform(BodyText(lastCall.body), lastCall.headers)
            nonempty == use_ai /\ lastCall.ai \in { "contact", "no_contact" }
        IN  /\ (use_ai /\ lastCall.ai = "empty_object") =>
                  /\ lead = extract(lastCall.body, lastCall.headers, "error")
                  /\ lastCall.calls = extract_calls(lastCall.body, lastCall.headers, "error")
                  /\ platform = None => lead = NoLead
                  /\ platform # None =>
                        /\ lead.tag = "lead"
                        /\ lead.extraction_method = "regex"
                        /\ lead.source_platform = platform
                        /\ lead.email = (lastCall.body \in { "body_signed_contact",
                                                             "body_contact_unsigned" })
            /\ lead.tag = "lead" =>
                  /\ lead.extraction_method \in { "ai", "regex" }
                  /\ lead.extraction_method = "ai" <=> nonempty
                  /\ nonempty => /\ lead.email = (lastCall.ai = "contact")
                                 /\ ~ lead.phone

\* C40 witness: the model answered {} for a message with a platform signature
\* and contact data; the record holds the pattern fields and is tagged 'regex'.
C40_Witness ==
    /\ lastCall.op = "extract"
    /\ use_ai /\ lastCall.ai = "empty_object"
    /\ lastCall.body = "body_signed_contact"
    /\ lead.tag = "lead" /\ lead.extraction_method = "regex"
    /\ lead.email /\ lead.phone

====
